---- MODULE Spec2Model ----
(***************************************************************************)
(* VoidWarp core: the TCP transfer protocol between TcpFileSender          *)
(* (sender.rs) and FileReceiverServer (receiver.rs), with the streaming    *)
(* reader and writer of io_utils.rs.                                       *)
(*                                                                         *)
(* Bytes are small integers.  The receiver-to-sender direction of a        *)
(* connection is a byte queue, because the sender reads it in units of 1,  *)
(* 8 and 9 bytes; the sender-to-receiver direction is a queue of whole     *)
(* messages (handshake, chunk frame), which the receiver reads in the      *)
(* layout the sender wrote.  MD5 is a collision-free digest.              *)
(***************************************************************************)
EXTENDS FiniteSets, Integers, Sequences, TLC

\* ---------------------------------------------------------------- bounds
MaxFileLen == 3
MaxChunkSize == 2
WholeStreamChunkSize == 16
MaxResumeFrom == 1
MaxFaults == 1
MaxSends == 2
MaxHostCalls == 1
MaxAccepts == 1
MaxLoops == 2

\* ----------------------------------------------------- program constants
MAX_RETRIES == 3
PROTOCOL_VERSION == 1

None == "None"

Min(a, b) == IF a < b THEN a ELSE b

\* ------------------------------------------------------------ byte codecs
\* u64::to_be_bytes for values below 2^31 (the four high bytes are zero)
U64BE(n) ==
    <<0, 0, 0, 0, (n \div 16777216) % 256, (n \div 65536) % 256,
      (n \div 256) % 256, n % 256>>

\* u64::from_be_bytes on eight bytes whose four high bytes are zero
U64FromBE(b) == ((b[5] * 256 + b[6]) * 256 + b[7]) * 256 + b[8]

\* u32::to_be_bytes
U32BE(n) ==
    <<(n \div 16777216) % 256, (n \div 65536) % 256, (n \div 256) % 256, n % 256>>

\* u32::from_be_bytes
U32FromBE(b) == ((b[1] * 256 + b[2]) * 256 + b[3]) * 256 + b[4]

\* u16::to_be_bytes
U16BE(n) == <<(n \div 256) % 256, n % 256>>

\* u16::from_be_bytes
U16FromBE(b) == b[1] * 256 + b[2]

\* --------------------------------------------------------------- checksum
\* md5::compute + format!("{:x}"): the hex digest of a byte sequence
calculate_chunk_checksum(data) == [hex |-> data]

\* the file is read to its end and digested
calculate_file_checksum(content) == [hex |-> content]

\* the 16 raw bytes obtained from the 32 hex digits (u8::from_str_radix per pair)
HexToRaw(h) == [raw |-> h.hex]

\* ---------------------------------------------------------------- strings
\* A String is the sequence of its UTF-8 bytes; a digest [hex |-> d] is the
\* string of two lowercase hex digits per byte of d.
HexChar(v) == IF v < 10 THEN 48 + v ELSE 87 + v

IsHexChar(ch) == ch \in 48..57 \/ ch \in 97..102

HexVal(ch) == IF ch <= 57 THEN ch - 48 ELSE ch - 87

\* String::as_bytes of a digest
DigestBytes(h) ==
    [i \in 1..(2 * Len(h.hex)) |->
        LET b == h.hex[(i + 1) \div 2]
        IN HexChar(IF i % 2 = 1 THEN b \div 16 ELSE b % 16)]

\* the string read back as a digest; a string that is not one keeps its text
DigestOfString(s) ==
    IF Len(s) % 2 = 0 /\ \A i \in DOMAIN s : IsHexChar(s[i])
    THEN [hex |-> [k \in 1..(Len(s) \div 2) |-> HexVal(s[2 * k - 1]) * 16 + HexVal(s[2 * k])]]
    ELSE [hex |-> <<>>, text |-> s]

\* a UTF-8 continuation byte (10xxxxxx)
IsCont(b) == b \in 128..191

\* the second byte a three-byte or four-byte sequence admits after its first
SecondByteOk(first, second) ==
    \/ first = 224 /\ second \in 160..191
    \/ first \in 225..236 /\ second \in 128..191
    \/ first = 237 /\ second \in 128..159
    \/ first \in 238..239 /\ second \in 128..191
    \/ first = 240 /\ second \in 144..191
    \/ first \in 241..243 /\ second \in 128..191
    \/ first = 244 /\ second \in 128..143

\* Utf8Chunks::next at the head of bytes: a well-formed character and its
\* length, or the length of the maximal ill-formed prefix (safe_get reads 0
\* past the end)
Utf8Head(bytes) ==
    LET at(i) == IF i <= Len(bytes) THEN bytes[i] ELSE 0
        b == bytes[1]
    IN IF b < 128 THEN [valid |-> TRUE, len |-> 1]
       ELSE IF b \in 194..223
       THEN IF IsCont(at(2)) THEN [valid |-> TRUE, len |-> 2]
            ELSE [valid |-> FALSE, len |-> 1]
       ELSE IF b \in 224..239
       THEN IF ~SecondByteOk(b, at(2)) THEN [valid |-> FALSE, len |-> 1]
            ELSE IF ~IsCont(at(3)) THEN [valid |-> FALSE, len |-> 2]
            ELSE [valid |-> TRUE, len |-> 3]
       ELSE IF b \in 240..244
       THEN IF ~SecondByteOk(b, at(2)) THEN [valid |-> FALSE, len |-> 1]
            ELSE IF ~IsCont(at(3)) THEN [valid |-> FALSE, len |-> 2]
            ELSE IF ~IsCont(at(4)) THEN [valid |-> FALSE, len |-> 3]
            ELSE [valid |-> TRUE, len |-> 4]
       ELSE [valid |-> FALSE, len |-> 1]

\* String::from_utf8_lossy: well-formed characters are kept, every maximal
\* ill-formed prefix becomes one U+FFFD (EF BF BD)
RECURSIVE from_utf8_lossy(_)
from_utf8_lossy(bytes) ==
    IF bytes = <<>> THEN <<>>
    ELSE LET h == Utf8Head(bytes)
         IN (IF h.valid THEN SubSeq(bytes, 1, h.len) ELSE <<239, 191, 189>>)
            \o from_utf8_lossy(SubSeq(bytes, h.len + 1, Len(bytes)))

\* ------------------------------------------------------------ source trees
\* content of a source file of n bytes
Pattern(n) == [i \in 1..n |-> i]

\* relative paths a folder may hold, and the serial number a path has in JSON
PathTable == <<"a", "sub/b", "c">>
PathId(p) == CHOOSE i \in 1..Len(PathTable) : PathTable[i] = p

\* Path::parent of a relative path ("" when the path has one component)
PathParent(p) == IF p = "sub/b" THEN "sub" ELSE ""

SingleSource(n) ==
    [kind |-> "SingleFile", files |-> <<[path |-> ".", data |-> Pattern(n)]>>,
     empty_dirs |-> {}]

SingleSources == {SingleSource(n) : n \in 0..MaxFileLen}

FolderSources ==
    {[kind |-> "Folder", files |-> <<>>, empty_dirs |-> {}],
     [kind |-> "Folder",
      files |-> <<[path |-> "sub/b", data |-> <<>>], [path |-> "a", data |-> <<1>>]>>,
      empty_dirs |-> {}],
     [kind |-> "Folder",
      files |-> <<[path |-> "a", data |-> <<1>>], [path |-> "sub/b", data |-> <<>>]>>,
      empty_dirs |-> {}],
     [kind |-> "Folder", files |-> <<[path |-> "a", data |-> <<1, 2>>]>>,
      empty_dirs |-> {"e"}]}

\* folders of one-byte files, sent with a chunk size that holds the whole
\* stream
OneFileFolder ==
    [kind |-> "Folder", files |-> <<[path |-> "a", data |-> <<1>>]>>, empty_dirs |-> {}]

SmallFilesFolder ==
    [kind |-> "Folder",
     files |-> <<[path |-> "a", data |-> <<1>>], [path |-> "sub/b", data |-> <<2>>],
                 [path |-> "c", data |-> <<3>>]>>,
     empty_dirs |-> {}]

\* ------------------------------------------------------- manifest (JSON)
\* an injective number for a byte sequence, used to print a digest in JSON
RECURSIVE SeqCode(_)
SeqCode(s) == IF s = <<>> THEN 1 ELSE 4 * SeqCode(SubSeq(s, 1, Len(s) - 1)) + s[Len(s)]

\* ManifestItem { path, size, hash }
ManifestItem(f) ==
    [path |-> f.path, size |-> Len(f.data), hash |-> calculate_file_checksum(f.data)]

RECURSIVE SumSizes(_)
SumSizes(items) ==
    IF items = <<>> THEN 0 ELSE items[1].size + SumSizes(Tail(items))

\* TransferManifest { items, total_size }
TransferManifest(files) ==
    LET items == [i \in 1..Len(files) |-> ManifestItem(files[i])]
    IN [items |-> items, total_size |-> SumSizes(items)]

\* serde_json::to_string: one byte for total_size, then one byte per item
\* packing path, size and hash
ItemToken(it) == 128 + PathId(it.path) * 32 + it.size * 8 + (SeqCode(it.hash.hex) % 8)
ManifestJson(m) ==
    <<m.total_size>> \o [i \in 1..Len(m.items) |-> ItemToken(m.items[i])]

\* serde_json::from_slice: ok is FALSE when the bytes are not a manifest
TokenValid(t) == t >= 128 /\ ((t - 128) \div 32) \in 1..Len(PathTable)
TokenItem(t) ==
    [path |-> PathTable[(t - 128) \div 32], size |-> ((t - 128) % 32) \div 8]
ParseManifest(bytes) ==
    IF bytes = <<>> \/ \E i \in 2..Len(bytes) : ~TokenValid(bytes[i])
    THEN [ok |-> FALSE, items |-> <<>>, total_size |-> 0]
    ELSE [ok |-> TRUE,
          items |-> [i \in 1..(Len(bytes) - 1) |-> TokenItem(bytes[i + 1])],
          total_size |-> bytes[1]]

\* ------------------------------------------------------ sender (fields)
\* TcpFileSender::new: the fields computed by new_single_file / new_folder
manifest_json(src) == ManifestJson(TransferManifest(src.files))

manifest_bytes(src) ==
    IF src.kind = "Folder"
    THEN U32BE(Len(manifest_json(src))) \o manifest_json(src)
    ELSE <<>>

files_to_send(src) == [i \in 1..Len(src.files) |-> src.files[i].data]

\* a folder size that leaves out the four bytes of the manifest length
sender_file_size_NoPrefix(src) ==
    IF src.kind = "Folder"
    THEN Len(manifest_json(src)) + TransferManifest(src.files).total_size
    ELSE Len(src.files[1].data)

sender_file_size(src) ==
    IF src.kind = "Folder"
    THEN Len(manifest_bytes(src)) + TransferManifest(src.files).total_size
    ELSE Len(src.files[1].data)

sender_file_checksum(src) ==
    IF src.kind = "Folder"
    THEN calculate_chunk_checksum(manifest_json(src))
    ELSE calculate_file_checksum(src.files[1].data)

\* TcpFileSender::file_name: the last component of file_path ("f", "d")
file_name(src) == IF src.kind = "Folder" THEN <<100>> ELSE <<102>>

\* HandshakeRequest::new as send_handshake builds it
HandshakeRequest(c) ==
    [version |-> c.version, sender_name |-> c.sender_name, file_name |-> file_name(c.src),
     file_size |-> sender_file_size(c.src), chunk_size |-> c.chunk_size,
     file_checksum |-> sender_file_checksum(c.src), transfer_type |-> c.src.kind]

\* a write_to that writes the file name's length as one byte
write_to_ShortNameLen(h) ==
    <<h.version>>
    \o <<Min(Len(h.sender_name), 255)>> \o SubSeq(h.sender_name, 1, Min(Len(h.sender_name), 255))
    \o <<Min(Len(h.file_name), 255)>> \o SubSeq(h.file_name, 1, Min(Len(h.file_name), 255))
    \o U64BE(h.file_size) \o U32BE(h.chunk_size)
    \o <<Min(Len(DigestBytes(h.file_checksum)), 255)>>
    \o SubSeq(DigestBytes(h.file_checksum), 1, Min(Len(DigestBytes(h.file_checksum)), 255))

\* HandshakeRequest::write_to: version, sender name, file name, file size,
\* chunk size, checksum
write_to(h) ==
    LET sender_bytes == h.sender_name
        file_name_bytes == h.file_name
        checksum_bytes == DigestBytes(h.file_checksum)
        sender_len == Min(Len(sender_bytes), 255)
        fname_len == Min(Len(file_name_bytes), 65535)
        check_len == Min(Len(checksum_bytes), 255)
    IN <<h.version>>
       \o <<sender_len>> \o SubSeq(sender_bytes, 1, sender_len)
       \o U16BE(fname_len) \o SubSeq(file_name_bytes, 1, fname_len)
       \o U64BE(h.file_size) \o U32BE(h.chunk_size)
       \o <<check_len>> \o SubSeq(checksum_bytes, 1, check_len)

\* the transfer_type byte that ends the encoding: 0 SingleFile, 1 Folder
write_transfer_type(h) == <<IF h.transfer_type = "Folder" THEN 1 ELSE 0>>

\* the handshake as send_handshake puts it on the stream
handshake_bytes(h) == write_to(h) \o write_transfer_type(h)

ReadError(kind, n) == [ok |-> FALSE, err |-> kind, consumed |-> n, hs |-> <<>>]

\* a read_from that accepts any version byte
read_from_AnyVersion(b) ==
    LET n == Len(b)
    IN IF n < 2 THEN ReadError("UnexpectedEof", n)
       ELSE LET p1 == 2 + b[2]
            IN IF n < p1 + 2 THEN ReadError("UnexpectedEof", n)
               ELSE LET p2 == p1 + 2 + U16FromBE(SubSeq(b, p1 + 1, p1 + 2))
                    IN IF n < p2 + 13 \/ n < p2 + 13 + b[p2 + 13]
                       THEN ReadError("UnexpectedEof", n)
                       ELSE [ok |-> TRUE, err |-> None, consumed |-> p2 + 13 + b[p2 + 13],
                             hs |-> <<[version |-> b[1],
                                       sender_name |-> from_utf8_lossy(SubSeq(b, 3, p1)),
                                       file_name |-> from_utf8_lossy(SubSeq(b, p1 + 3, p2)),
                                       file_size |-> U64FromBE(SubSeq(b, p2 + 1, p2 + 8)),
                                       chunk_size |-> U32FromBE(SubSeq(b, p2 + 9, p2 + 12)),
                                       file_checksum |-> DigestOfString(from_utf8_lossy(
                                           SubSeq(b, p2 + 14, p2 + 13 + b[p2 + 13])))]>>]

\* HandshakeRequest::read_from on the bytes b the stream delivers before it
\* ends: the request, or the error, and the bytes consumed
read_from(b) ==
    LET n == Len(b)
    IN IF n < 1 THEN ReadError("UnexpectedEof", n)
       ELSE IF b[1] # PROTOCOL_VERSION THEN ReadError("InvalidData", 1)
       ELSE IF n < 2 THEN ReadError("UnexpectedEof", n)
       ELSE LET sender_len == b[2]
                p1 == 2 + sender_len
            IN IF n < p1 + 2 THEN ReadError("UnexpectedEof", n)
               ELSE LET fname_len == U16FromBE(SubSeq(b, p1 + 1, p1 + 2))
                        p2 == p1 + 2 + fname_len
                    IN IF n < p2 + 13 THEN ReadError("UnexpectedEof", n)
                       ELSE LET check_len == b[p2 + 13]
                                p3 == p2 + 13 + check_len
                            IN IF n < p3 THEN ReadError("UnexpectedEof", n)
                               ELSE [ok |-> TRUE, err |-> None, consumed |-> p3,
                                     hs |-> <<[version |-> b[1],
                                               sender_name |-> from_utf8_lossy(SubSeq(b, 3, p1)),
                                               file_name |-> from_utf8_lossy(SubSeq(b, p1 + 3, p2)),
                                               file_size |-> U64FromBE(SubSeq(b, p2 + 1, p2 + 8)),
                                               chunk_size |-> U32FromBE(SubSeq(b, p2 + 9, p2 + 12)),
                                               file_checksum |->
                                                   DigestOfString(from_utf8_lossy(SubSeq(b, p2 + 14, p3)))]>>]

\* read_from followed by the transfer_type byte
read_handshake(b) ==
    LET r == read_from(b)
    IN IF ~r.ok THEN r
       ELSE IF Len(b) < r.consumed + 1 THEN ReadError("UnexpectedEof", Len(b))
       ELSE IF b[r.consumed + 1] \notin {0, 1} THEN ReadError("InvalidData", r.consumed + 1)
       ELSE [r EXCEPT !.consumed = @ + 1,
                      !.hs = <<[version |-> r.hs[1].version,
                                sender_name |-> r.hs[1].sender_name,
                                file_name |-> r.hs[1].file_name,
                                file_size |-> r.hs[1].file_size,
                                chunk_size |-> r.hs[1].chunk_size,
                                file_checksum |-> r.hs[1].file_checksum,
                                transfer_type |-> IF b[r.consumed + 1] = 1 THEN "Folder"
                                                  ELSE "SingleFile"]>>]

\* send_chunk: [index][len][data][16 raw checksum bytes]
ChunkFrame(index, data) ==
    [kind |-> "frame", index |-> index, data |-> data,
     checksum |-> HexToRaw(calculate_chunk_checksum(data))]

\* ------------------------------------------------------ MultiFileReader
RECURSIVE SumLens(_)
SumLens(files) == IF files = <<>> THEN 0 ELSE Len(files[1]) + SumLens(Tail(files))

reader_total_size(head, files) == Len(head) + SumLens(files)

\* "Find which file we are in": the file index (from 1) and the offset in it
RECURSIVE LocateFile(_, _, _)
LocateFile(files, relative_offset, file_idx) ==
    IF file_idx > Len(files) THEN [idx |-> file_idx, rel |-> relative_offset]
    ELSE IF relative_offset < Len(files[file_idx])
         THEN [idx |-> file_idx, rel |-> relative_offset]
         ELSE LocateFile(files, relative_offset - Len(files[file_idx]), file_idx + 1)

\* MultiFileReader::read with a buffer of buf_len bytes at global_offset:
\* the bytes returned (empty at end of stream)
reader_read(head, files, global_offset, buf_len) ==
    IF global_offset < Len(head)
    THEN SubSeq(head, global_offset + 1,
                global_offset + Min(buf_len, Len(head) - global_offset))
    ELSE LET loc == LocateFile(files, global_offset - Len(head), 1)
         IN IF loc.idx > Len(files) THEN <<>>
            ELSE SubSeq(files[loc.idx], loc.rel + 1,
                        loc.rel + Min(buf_len, Len(files[loc.idx]) - loc.rel))

\* MultiFileReader::seek(Start(n)): fails beyond total_size
reader_seek_ok(head, files, n) == n <= reader_total_size(head, files)

\* ------------------------------------------------------- receiver's disk
\* fs.files maps each existing regular file to its bytes, fs.dirs is the set
\* of existing directories; "." is save_path itself
FsCreate(fs, p) ==
    [fs EXCEPT !.files = [q \in (DOMAIN fs.files) \cup {p} |-> IF q = p THEN <<>> ELSE fs.files[q]]]

FsAppend(fs, p, bytes) ==
    [fs EXCEPT !.files = [q \in DOMAIN fs.files |-> IF q = p THEN fs.files[q] \o bytes ELSE fs.files[q]]]

FsSetLen(fs, p, len) ==
    [fs EXCEPT !.files = [q \in DOMAIN fs.files |-> IF q = p THEN SubSeq(fs.files[q], 1, len) ELSE fs.files[q]]]

FsMkdirs(fs, ds) == [fs EXCEPT !.dirs = fs.dirs \cup ds]

\* ------------------------------------------------------- ReceiverWriter
NoWriter ==
    [kind |-> "none", st |-> "none", len_buf |-> <<>>, len |-> 0, m_buf |-> <<>>,
     items |-> <<>>, current_file_idx |-> 0, current_offset_in_file |-> 0,
     current_file |-> FALSE, manifest_hash |-> <<>>]

\* ReceiverWriter::new_single / resume_single: a SingleFile writer
SingleWriter == [NoWriter EXCEPT !.kind = "SingleFile"]

\* ReceiverWriter::new_folder
new_folder == [NoWriter EXCEPT !.kind = "Folder", !.st = "ReadingManifestLen"]

\* len > 100 * 1024 * 1024 on the four length bytes
ManifestTooLarge(b) ==
    b[1] > 6 \/ (b[1] = 6 /\ (b[2] > 64 \/ (b[2] = 64 /\ (b[3] > 0 \/ b[4] > 0))))

\* the parent directories create_dir_all makes for the manifest items
ItemDirs(items) ==
    {"."} \cup ({PathParent(items[i].path) : i \in 1..Len(items)} \ {""})

\* handle_folder_write from buf_idx (counted from 0): the writer, the disk and
\* whether an error was returned
RECURSIVE handle_folder_write(_, _, _, _)
handle_folder_write(w, fs, buf, buf_idx) ==
    IF buf_idx >= Len(buf) THEN [w |-> w, fs |-> fs, err |-> FALSE]
    ELSE LET available == Len(buf) - buf_idx IN
    CASE w.st = "ReadingManifestLen" ->
           LET to_copy == Min(4 - Len(w.len_buf), available)
               nb == w.len_buf \o SubSeq(buf, buf_idx + 1, buf_idx + to_copy)
           IN IF Len(nb) < 4
              THEN handle_folder_write([w EXCEPT !.len_buf = nb], fs, buf, buf_idx + to_copy)
              ELSE IF ManifestTooLarge(nb)
                   THEN [w |-> [w EXCEPT !.len_buf = nb], fs |-> fs, err |-> TRUE]
                   ELSE handle_folder_write(
                            [w EXCEPT !.len_buf = nb, !.st = "ReadingManifest",
                                      !.len = U32FromBE(nb), !.m_buf = <<>>],
                            fs, buf, buf_idx + to_copy)
      [] w.st = "ReadingManifest" ->
           LET to_copy == Min(w.len - Len(w.m_buf), available)
               mb == w.m_buf \o SubSeq(buf, buf_idx + 1, buf_idx + to_copy)
           IN IF Len(mb) < w.len
              THEN handle_folder_write([w EXCEPT !.m_buf = mb], fs, buf, buf_idx + to_copy)
              ELSE LET hashed == [w EXCEPT !.m_buf = mb,
                                     !.manifest_hash = <<calculate_chunk_checksum(mb)>>]
                       manifest == ParseManifest(mb)
                   IN IF ~manifest.ok
                      THEN [w |-> hashed, fs |-> fs, err |-> TRUE]
                      ELSE handle_folder_write(
                               [hashed EXCEPT !.st = "WritingFiles", !.items = manifest.items,
                                   !.current_file_idx = 0, !.current_offset_in_file = 0,
                                   !.current_file = FALSE],
                               FsMkdirs(fs, ItemDirs(manifest.items)), buf, buf_idx + to_copy)
      [] w.st = "WritingFiles" ->
           IF w.current_file_idx >= Len(w.items)
           THEN [w |-> w, fs |-> fs, err |-> FALSE]
           ELSE LET item == w.items[w.current_file_idx + 1]
                    remaining_in_file == item.size - w.current_offset_in_file
                IN IF remaining_in_file = 0
                   THEN handle_folder_write(
                            [w EXCEPT !.current_file_idx = @ + 1,
                                      !.current_offset_in_file = 0, !.current_file = FALSE],
                            IF item.size = 0 /\ w.current_offset_in_file = 0
                            THEN FsCreate(fs, item.path) ELSE fs,
                            buf, buf_idx)
                   ELSE LET opened == IF w.current_file THEN fs ELSE FsCreate(fs, item.path)
                            to_write == Min(remaining_in_file, available)
                            written == FsAppend(opened, item.path,
                                                SubSeq(buf, buf_idx + 1, buf_idx + to_write))
                            done == w.current_offset_in_file + to_write = item.size
                        IN handle_folder_write(
                               [w EXCEPT !.current_file_idx = IF done THEN @ + 1 ELSE @,
                                         !.current_offset_in_file = IF done THEN 0 ELSE @ + to_write,
                                         !.current_file = ~done],
                               written, buf, buf_idx + to_write)
      [] OTHER -> [w |-> w, fs |-> fs, err |-> TRUE]

\* a folder writer that drops its open file at the end of every write call
writer_write_all_Reopens(w, fs, data) ==
    IF w.kind = "SingleFile"
    THEN [w |-> w, fs |-> FsAppend(fs, ".", data), err |-> FALSE]
    ELSE LET res == handle_folder_write(w, fs, data, 0)
         IN [res EXCEPT !.w.current_file = FALSE]

\* Write::write_all on a ReceiverWriter
writer_write_all(w, fs, data) ==
    IF w.kind = "SingleFile"
    THEN [w |-> w, fs |-> FsAppend(fs, ".", data), err |-> FALSE]
    ELSE handle_folder_write(w, fs, data, 0)

\* ------------------------------------------------------------- discovery
\* Option<T>: None is the empty sequence, Some(x) is <<x>>
Some(x) == <<x>>

\* device ids ("a" is the engine's own, "b" a peer's), device names ("x",
\* "yz"), ports (1 and 0x0102) and source addresses the runs draw from
OwnDeviceId == <<97>>
DeviceIds == {<<97>>, <<98>>}
DeviceNames == {<<120>>, <<121, 122>>}
Ports == {1, 258}
Addrs == {1, 2}

\* "_voidwarp._udp.local."
SERVICE_TYPE ==
    <<95, 118, 111, 105, 100, 119, 97, 114, 112, 46, 95, 117, 100, 112, 46,
      108, 111, 99, 97, 108, 46>>

BEACON_MAGIC == <<86, 87>>
PACKET_TYPE_HELLO == 3

\* format!("{}.{}", service_id, SERVICE_TYPE)
FullName(instance) == instance \o <<46>> \o SERVICE_TYPE

\* fullname.split('.').next().unwrap_or("")
RECURSIVE FirstLabel(_)
FirstLabel(s) ==
    IF s = <<>> \/ s[1] = 46 THEN <<>> ELSE <<s[1]>> \o FirstLabel(Tail(s))

\* broadcast.rs 111-124
build_hello_packet(device_id, device_name, port) ==
    LET id_len == Min(Len(device_id), 255)
        name_len == Min(Len(device_name), 255)
    IN BEACON_MAGIC \o <<PACKET_TYPE_HELLO>> \o U16BE(port) \o <<id_len>>
       \o SubSeq(device_id, 1, id_len) \o <<name_len>> \o SubSeq(device_name, 1, name_len)

\* a parser that takes what bytes there are when name_len announces more
parse_hello_packet_ShortName(buf) ==
    IF Len(buf) < 2 + 1 + 2 + 1 THEN <<>>
    ELSE IF buf[1] # BEACON_MAGIC[1] \/ buf[2] # BEACON_MAGIC[2] \/ buf[3] # PACKET_TYPE_HELLO
    THEN <<>>
    ELSE LET port == U16FromBE(<<buf[4], buf[5]>>)
             id_end == 6 + buf[6]
         IN IF Len(buf) < id_end + 1 THEN <<>>
            ELSE LET name_end == id_end + 1 + buf[id_end + 1]
                 IN Some([device_id |-> from_utf8_lossy(SubSeq(buf, 7, id_end)),
                          device_name |->
                              from_utf8_lossy(SubSeq(buf, id_end + 2, Min(name_end, Len(buf)))),
                          port |-> port])

\* broadcast.rs 145-174: None, or Some(HelloPeer)
parse_hello_packet(buf) ==
    IF Len(buf) < 2 + 1 + 2 + 1 THEN <<>>
    ELSE IF buf[1] # BEACON_MAGIC[1] \/ buf[2] # BEACON_MAGIC[2] \/ buf[3] # PACKET_TYPE_HELLO
    THEN <<>>
    ELSE LET port == U16FromBE(<<buf[4], buf[5]>>)
             id_end == 6 + buf[6]
         IN IF Len(buf) < id_end + 1 THEN <<>>
            ELSE LET name_end == id_end + 1 + buf[id_end + 1]
                 IN IF Len(buf) < name_end THEN <<>>
                    ELSE Some([device_id |-> from_utf8_lossy(SubSeq(buf, 7, id_end)),
                               device_name |->
                                   from_utf8_lossy(SubSeq(buf, id_end + 2, name_end)),
                               port |-> port])

\* a map that keeps the entry it has
MapInsert_KeepsOld(m, k, v) ==
    [x \in DOMAIN m \cup {k} |-> IF x \in DOMAIN m THEN m[x] ELSE v]

\* HashMap::insert and HashMap::remove on the peer map
MapInsert(m, k, v) == [x \in DOMAIN m \cup {k} |-> IF x = k THEN v ELSE m[x]]

MapRemove(m, k) == [x \in DOMAIN m \ {k} |-> m[x]]

EmptyMap == [x \in {} |-> <<>>]

DiscoveredPeer(device_id, device_name, addresses, port) ==
    [device_id |-> device_id, device_name |-> device_name,
     addresses |-> addresses, port |-> port]

\* DiscoveryManager::new (daemon created) and new_fallback
NewManager ==
    [daemon |-> TRUE, peers |-> EmptyMap, our_service |-> <<>>, fallback_mode |-> FALSE]

new_fallback ==
    [daemon |-> FALSE, peers |-> EmptyMap, our_service |-> <<>>, fallback_mode |-> TRUE]

\* register_service: our_service is set when daemon.register succeeds
register_service(mgr, device_id, registers) ==
    IF mgr.daemon /\ registers THEN [mgr EXCEPT !.our_service = Some(device_id)] ELSE mgr

\* get_peers: the values of the map
get_peers(mgr) == {mgr.peers[k] : k \in DOMAIN mgr.peers}

\* add_manual_peer
add_manual_peer(mgr, device_id, device_name, ip, port) ==
    [mgr EXCEPT !.peers =
        MapInsert(@, device_id, DiscoveredPeer(device_id, device_name, <<ip>>, port))]

\* a handle on which start_discovery was not called.  history: registered,
\* ret, last (the last step of the discovery side) and prev_start (the
\* host's last call on the handle, when it was a start_discovery)
NoDiscovery ==
    [discovery |-> <<>>, browser |-> <<>>, listener |-> <<>>, registered |-> 0,
     ret |-> 0, last |-> [op |-> "init"], prev_start |-> <<>>]

\* unregister: daemon.unregister(fullname) and our_service = None
unregister(mgr) == [mgr EXCEPT !.our_service = <<>>]

\* the registrations a manager holds at its daemon
Registrations(mgr) == IF mgr.daemon /\ mgr.our_service # <<>> THEN 1 ELSE 0

\* ==================================================================== state
VARIABLES
    cfg,      \* the TcpFileSender as constructed: source, chunk_size, resume_from_chunk
    snd,      \* send_to / send_over_stream: position, locals, atomics, result
    net,      \* per connection: both directions of the TCP stream
    backlog,  \* connections the listener has not accepted yet
    srv,      \* FileReceiverServer: running, state, pending slots, counters
    loops,    \* the accept-loop threads spawned by start()
    acc,      \* the accept_transfer call in progress
    wr,       \* its ReceiverWriter
    fs,       \* the receiver's disk at save_path
    hist,     \* history: frames sent, ACKs written, bytes given to the writer,
              \* fault and call counts, what lay at save_path before the run
    disc,     \* VoidWarpHandle.discovery: the DiscoveryManager, its threads
    host      \* the calls of start, stop and reject_transfer in progress: the
              \* position of each, the stream reject_transfer holds; history:
              \* the stream that was pending when reject_transfer was called

vars == <<cfg, snd, net, backlog, srv, loops, acc, wr, fs, hist, disc, host>>

Conns == 1..MaxSends
LoopIds == 1..MaxLoops

EmptyFiles == [q \in {} |-> <<>>]

\* what may lie at save_path before a single-file transfer: nothing, a
\* prefix of the pattern, or other bytes
StaleFile(n) == [i \in 1..n |-> 9]
DestFiles ==
    {EmptyFiles} \cup {[q \in {"."} |-> Pattern(n)] : n \in 1..(MaxFileLen - 1)}
                 \cup {[q \in {"."} |-> StaleFile(1)]}

\* what a run may hold: events (corruption, timeout, failed open or connect,
\* cancel and, where host is set, stop and reject_transfer calls), send_to
\* calls and accept_transfer calls
Budget(ev, calls, sn, ac) ==
    [events |-> ev, host |-> calls, sends |-> sn, accepts |-> ac]

\* the sender_name given to send_to: "s", or none, or "st", or "\u00e9" (C3 A9)
DefaultName == <<115>>
SenderNames == {<<>>, <<115>>, <<115, 116>>, <<195, 169>>}

\* the runs considered.  Data runs: every source with every chunk size, as
\* constructed and after set_resume_from, one send_to over a faulty wire, with
\* a host that starts and accepts.  Host runs: a one-chunk file with a host
\* that also stops and rejects, and a sender that connects again.  Retry
\* runs: a one-chunk file with as many faults as the sender makes attempts;
\* one peer speaks another protocol version.  Resume runs: two whole chunks
\* sent to a save_path holding one chunk and a part of the next.  Name runs:
\* the other sender names, over a wire without faults.  Race runs: an empty
\* file with a host call and a fault, or two host calls, and one send_to.
\* Boundary runs: a folder of three one-byte files in one chunk's worth of
\* stream, over a wire without faults.
DataConfigs ==
    [src : SingleSources \cup FolderSources, chunk_size : 1..MaxChunkSize,
     resume_from_chunk : {0}, version : {PROTOCOL_VERSION},
     sender_name : {DefaultName}, budget : {Budget(MaxFaults, FALSE, 1, MaxAccepts)}]
    \cup [src : SingleSources \cup FolderSources, chunk_size : 1..MaxChunkSize,
          resume_from_chunk : 1..MaxResumeFrom, version : {PROTOCOL_VERSION},
          sender_name : {DefaultName}, budget : {Budget(MaxFaults, FALSE, 1, MaxAccepts)}]

HostConfigs ==
    [src : {SingleSource(1)}, chunk_size : {1},
     resume_from_chunk : {0}, version : {PROTOCOL_VERSION},
     sender_name : {DefaultName}, budget : {Budget(MaxHostCalls, TRUE, MaxSends, MaxAccepts)}]

RetryConfigs ==
    [src : {SingleSource(1)}, chunk_size : {1},
     resume_from_chunk : {0}, version : {PROTOCOL_VERSION, PROTOCOL_VERSION + 1},
     sender_name : {DefaultName}, budget : {Budget(MAX_RETRIES, FALSE, 1, MaxAccepts)}]

ResumeConfigs ==
    [src : {SingleSource(2 * MaxChunkSize)}, chunk_size : {MaxChunkSize},
     resume_from_chunk : {0}, version : {PROTOCOL_VERSION},
     sender_name : {DefaultName}, budget : {Budget(MaxFaults, FALSE, 1, MaxAccepts)}]

NameConfigs ==
    [src : {SingleSource(1)}, chunk_size : {1},
     resume_from_chunk : {0}, version : {PROTOCOL_VERSION, PROTOCOL_VERSION + 1},
     sender_name : SenderNames \ {DefaultName}, budget : {Budget(0, FALSE, 1, MaxAccepts)}]

RaceConfigs ==
    [src : {SingleSource(0)}, chunk_size : {1},
     resume_from_chunk : {0}, version : {PROTOCOL_VERSION},
     sender_name : {DefaultName},
     budget : {Budget(MaxHostCalls + MaxFaults, TRUE, 1, MaxAccepts)}]

BoundaryConfigs ==
    [src : {SmallFilesFolder}, chunk_size : {WholeStreamChunkSize},
     resume_from_chunk : {0}, version : {PROTOCOL_VERSION},
     sender_name : {DefaultName}, budget : {Budget(0, FALSE, 1, MaxAccepts)}]

Configs ==
    DataConfigs \cup HostConfigs \cup RetryConfigs \cup ResumeConfigs \cup NameConfigs
    \cup RaceConfigs \cup BoundaryConfigs

\* what lies at save_path before the run
DestsOf(c) ==
    IF c \in DataConfigs /\ c.src.kind = "SingleFile" THEN DestFiles
    ELSE IF c \in ResumeConfigs THEN {[q \in {"."} |-> Pattern(MaxChunkSize + 1)]}
    ELSE {EmptyFiles}

NoConn == [s2r |-> <<>>, r2s |-> <<>>, s_open |-> FALSE, r_open |-> FALSE,
           rpos |-> 0, wpos |-> 0]

\* the state after construction, for a sender of one of the configurations
InitOf(configs) ==
    /\ cfg \in configs
    /\ snd = [pc |-> "idle", conn |-> 0, chunk_index |-> 0, retries |-> 0, offset |-> 0,
              data |-> <<>>, bytes_sent |-> 0, cancelled |-> FALSE, result |-> None,
              sends |-> 0]
    /\ net = [c \in Conns |-> NoConn]
    /\ backlog = <<>>
    /\ srv = [running |-> FALSE, state |-> "Idle", pending_transfer |-> <<>>,
              pending_stream |-> <<>>, bytes_received |-> 0, total_bytes |-> 0]
    /\ loops = [t \in LoopIds |-> [pc |-> "none", conn |-> 0, hs |-> <<>>]]
    /\ acc = [pc |-> "idle", info |-> <<>>, conn |-> 0, received |-> 0,
              start_chunk_index |-> 0, result |-> None, at_state |-> "Idle",
              success |-> FALSE]
    /\ wr = NoWriter
    /\ fs \in {[files |-> f, dirs |-> {}] : f \in DestsOf(cfg)}
    /\ hist = [faults |-> 0, corrupted |-> 0, stops |-> 0, rejects |-> 0, accepts |-> 0,
               early |-> 0, restops |-> 0, halted |-> FALSE, stopping |-> FALSE, rejected |-> {}, sent |-> <<>>, acks |-> <<>>,
               written |-> <<>>, resume |-> <<>>, fed |-> <<>>, verdicts |-> {},
               dest |-> fs.files, probe |-> None, late |-> FALSE, finished |-> FALSE]
    /\ disc = NoDiscovery
    /\ host = [start |-> "idle", stop |-> "idle", reject |-> "idle", stream |-> <<>>,
               found |-> <<>>]

Init == InitOf(Configs)

\* the run's budget admits one more event; one more stop or reject call
MayFault == hist.faults + hist.stops + hist.rejects < cfg.budget.events

MayHostCall == cfg.budget.host /\ MayFault

\* ------------------------------------------------------------- sender
HeadData == manifest_bytes(cfg.src)
Files == files_to_send(cfg.src)

\* the sender's stream is dropped when send_over_stream returns
CloseIfDone(s, nt) ==
    IF s.pc = "done" THEN [nt EXCEPT ![s.conn].s_open = FALSE] ELSE nt

Finished(s, res) == [s EXCEPT !.pc = "done", !.result = res]

\* the sender takes n bytes from the receiver-to-sender queue
Consume(nt, c, n) ==
    [nt EXCEPT ![c].r2s = SubSeq(@, n + 1, Len(@)), ![c].rpos = @ + n]

\* sender.rs 347-371: create the reader, seek to start_chunk * chunk_size
SeekToStart(s, start_chunk) ==
    LET start_offset == start_chunk * cfg.chunk_size
    IN IF start_offset > 0 /\ ~reader_seek_ok(HeadData, Files, start_offset)
       THEN Finished(s, "IoError")
       ELSE [s EXCEPT !.pc = "loop_top", !.chunk_index = start_chunk,
                      !.offset = start_offset,
                      !.bytes_sent = IF start_offset > 0 THEN start_offset ELSE @]

\* send_to: connect, then send_handshake
SendTo ==
    /\ snd.pc \in {"idle", "done"}
    /\ snd.sends < cfg.budget.sends
    /\ LET c == snd.sends + 1
       IN /\ snd' = [snd EXCEPT !.pc = "wait_decision", !.conn = c, !.sends = c,
                                !.result = None, !.retries = 0, !.data = <<>>]
          /\ net' = [net EXCEPT ![c] = [NoConn EXCEPT !.s2r = <<[kind |-> "hs",
                                                                 bytes |-> handshake_bytes(HandshakeRequest(cfg))]>>,
                                                      !.s_open = TRUE, !.r_open = TRUE]]
          /\ backlog' = Append(backlog, c)
    /\ hist' = [hist EXCEPT !.sent = <<>>, !.acks = <<>>]
    /\ UNCHANGED <<cfg, disc, host, srv, loops, acc, wr, fs>>

\* send_to: connect_timeout fails
ConnectFailed ==
    /\ snd.pc \in {"idle", "done"}
    /\ snd.sends < cfg.budget.sends
    /\ MayFault
    /\ snd' = [snd EXCEPT !.pc = "done", !.result = "ConnectionFailed", !.sends = @ + 1,
                          !.conn = @ + 1]
    /\ hist' = [hist EXCEPT !.faults = @ + 1, !.sent = <<>>, !.acks = <<>>]
    /\ UNCHANGED <<cfg, disc, host, net, backlog, srv, loops, acc, wr, fs>>

\* test_connection: connect_timeout succeeds, nothing is written and the
\* stream is dropped (the receiver reads end of stream where it expects a
\* handshake); the result is Success.  Or the connect fails.  The connection
\* takes the next number, as one of send_to does; send_to's own state is
\* left alone.  history: probe, the result returned
TestConnection ==
    /\ snd.sends < cfg.budget.sends
    /\ LET c == snd.sends + 1
       IN \/ /\ net' = [net EXCEPT ![c] = [NoConn EXCEPT
                              !.s2r = <<[kind |-> "hs", bytes |-> <<>>]>>,
                              !.r_open = TRUE]]
             /\ backlog' = Append(backlog, c)
             /\ hist' = [hist EXCEPT !.probe = "Success"]
          \/ /\ MayFault
             /\ UNCHANGED <<net, backlog>>
             /\ hist' = [hist EXCEPT !.faults = @ + 1, !.probe = "ConnectionFailed"]
    /\ snd' = [snd EXCEPT !.sends = @ + 1]
    /\ UNCHANGED <<cfg, disc, host, srv, loops, acc, wr, fs>>

\* send_to connects, send_handshake fails on a write: a part of the handshake
\* is on the stream and send_over_stream returns IoError
HandshakeFailed ==
    /\ snd.pc \in {"idle", "done"}
    /\ snd.sends < cfg.budget.sends
    /\ MayFault
    /\ LET c == snd.sends + 1
           bytes == handshake_bytes(HandshakeRequest(cfg))
       IN \E cut \in {1, Len(bytes) - 1} :
            /\ snd' = [snd EXCEPT !.pc = "done", !.conn = c, !.sends = c,
                                  !.result = "IoError", !.retries = 0, !.data = <<>>]
            /\ net' = [net EXCEPT ![c] = [NoConn EXCEPT
                           !.s2r = <<[kind |-> "hs", bytes |-> SubSeq(bytes, 1, cut)]>>,
                           !.r_open = TRUE]]
            /\ backlog' = Append(backlog, c)
    /\ hist' = [hist EXCEPT !.faults = @ + 1, !.sent = <<>>, !.acks = <<>>]
    /\ UNCHANGED <<cfg, disc, host, srv, loops, acc, wr, fs>>

\* sender.rs 287-345: read the decision byte; with resume_from_chunk > 0 the
\* resume index is not read
ReadDecision ==
    /\ snd.pc = "wait_decision"
    /\ net[snd.conn].r2s # <<>>
    /\ LET response == net[snd.conn].r2s[1]
           nt == Consume(net, snd.conn, 1)
           s2 == IF response = 0 THEN Finished(snd, "Rejected")
                 ELSE IF cfg.resume_from_chunk > 0
                      THEN SeekToStart(snd, cfg.resume_from_chunk)
                      ELSE [snd EXCEPT !.pc = "read_resume"]
       IN snd' = s2 /\ net' = CloseIfDone(s2, nt)
    /\ UNCHANGED <<cfg, disc, host, backlog, srv, loops, acc, wr, fs, hist>>

\* the read of the decision byte fails: end of stream, or the 60 s timeout
DecisionError ==
    /\ snd.pc = "wait_decision"
    /\ net[snd.conn].r2s = <<>>
    /\ \/ /\ ~net[snd.conn].r_open
          /\ snd' = Finished(snd, "IoError")
          /\ hist' = hist
       \/ /\ net[snd.conn].r_open
          /\ MayFault
          /\ snd' = Finished(snd, "Timeout")
          /\ hist' = [hist EXCEPT !.faults = @ + 1]
    /\ net' = [net EXCEPT ![snd.conn].s_open = FALSE]
    /\ UNCHANGED <<cfg, disc, host, backlog, srv, loops, acc, wr, fs>>

\* sender.rs 328-344: read the receiver's resume index; a failed read (end
\* of stream, or the 30 s timeout while the receiver is still connected)
\* gives 0.  history: late, the read timed out
ReadResume ==
    /\ snd.pc = "read_resume"
    /\ \/ /\ Len(net[snd.conn].r2s) >= 8
          /\ LET s2 == SeekToStart(snd, U64FromBE(SubSeq(net[snd.conn].r2s, 1, 8)))
             IN snd' = s2 /\ net' = CloseIfDone(s2, Consume(net, snd.conn, 8))
          /\ hist' = hist
       \/ /\ Len(net[snd.conn].r2s) < 8
          /\ \/ ~net[snd.conn].r_open /\ hist' = hist
             \/ /\ net[snd.conn].r_open
                /\ MayFault
                /\ hist' = [hist EXCEPT !.faults = @ + 1, !.late = TRUE]
          /\ LET s2 == SeekToStart(snd, 0)
             IN snd' = s2
                /\ net' = CloseIfDone(s2, Consume(net, snd.conn, Len(net[snd.conn].r2s)))
    /\ UNCHANGED <<cfg, disc, host, backlog, srv, loops, acc, wr, fs>>

\* a chunk loop that never looks at the cancelled flag
LoopTop_IgnoresCancel ==
    /\ snd.pc = "loop_top"
    /\ LET data == reader_read(HeadData, Files, snd.offset, cfg.chunk_size)
           s2 == IF data = <<>> THEN [snd EXCEPT !.pc = "wait_final"]
                 ELSE [snd EXCEPT !.pc = "send", !.data = data, !.retries = 0,
                                  !.offset = @ + Len(data)]
       IN snd' = s2 /\ net' = CloseIfDone(s2, net)
    /\ UNCHANGED <<cfg, disc, host, backlog, srv, loops, acc, wr, fs, hist>>

\* top of the chunk loop: the cancelled flag, then reader.read
LoopTop ==
    /\ snd.pc = "loop_top"
    /\ LET data == reader_read(HeadData, Files, snd.offset, cfg.chunk_size)
           s2 == IF snd.cancelled THEN Finished(snd, "Cancelled")
                 ELSE IF data = <<>> THEN [snd EXCEPT !.pc = "wait_final"]
                 ELSE [snd EXCEPT !.pc = "send", !.data = data, !.retries = 0,
                                  !.offset = @ + Len(data)]
       IN snd' = s2 /\ net' = CloseIfDone(s2, net)
    /\ UNCHANGED <<cfg, disc, host, backlog, srv, loops, acc, wr, fs, hist>>

\* a sender that gives up with IoError whatever made the last attempt fail
Retry_IoError(s, res) ==
    IF s.retries + 1 >= MAX_RETRIES THEN Finished([s EXCEPT !.retries = @ + 1], "IoError")
    ELSE [s EXCEPT !.retries = @ + 1, !.pc = "send"]

\* after a failed attempt: retry the chunk, or give up at MAX_RETRIES
Retry(s, res) ==
    IF s.retries + 1 >= MAX_RETRIES THEN Finished([s EXCEPT !.retries = @ + 1], res)
    ELSE [s EXCEPT !.retries = @ + 1, !.pc = "send"]

\* send_chunk succeeds: the frame is on the wire
SendChunk ==
    /\ snd.pc = "send"
    /\ snd' = [snd EXCEPT !.pc = "wait_ack"]
    /\ net' = [net EXCEPT ![snd.conn].s2r = Append(@, ChunkFrame(snd.chunk_index, snd.data))]
    /\ hist' = [hist EXCEPT !.sent = Append(@, [index |-> snd.chunk_index, data |-> snd.data,
                                                rpos |-> net[snd.conn].rpos])]
    /\ UNCHANGED <<cfg, disc, host, backlog, srv, loops, acc, wr, fs>>

\* send_chunk fails: the receiver has dropped the connection
SendChunkFail ==
    /\ snd.pc = "send"
    /\ ~net[snd.conn].r_open
    /\ LET s2 == Retry(snd, "IoError")
       IN snd' = s2 /\ net' = CloseIfDone(s2, net)
    /\ UNCHANGED <<cfg, disc, host, backlog, srv, loops, acc, wr, fs, hist>>

\* wait_for_ack read nine bytes: index and status
WaitAck ==
    /\ snd.pc = "wait_ack"
    /\ Len(net[snd.conn].r2s) >= 9
    /\ LET ack_buf == SubSeq(net[snd.conn].r2s, 1, 9)
           ok == SubSeq(ack_buf, 1, 8) = U64BE(snd.chunk_index) /\ ack_buf[9] = 0
           s2 == IF ok THEN [snd EXCEPT !.pc = "loop_top", !.bytes_sent = @ + Len(snd.data),
                                        !.chunk_index = @ + 1]
                 ELSE Retry(snd, "ChecksumMismatch")
       IN snd' = s2 /\ net' = CloseIfDone(s2, Consume(net, snd.conn, 9))
    /\ UNCHANGED <<cfg, disc, host, backlog, srv, loops, acc, wr, fs, hist>>

\* wait_for_ack fails: end of stream, or the 30 s ACK timeout
AckError ==
    /\ snd.pc = "wait_ack"
    /\ Len(net[snd.conn].r2s) < 9
    /\ \/ ~net[snd.conn].r_open /\ hist' = hist
       \/ /\ net[snd.conn].r_open
          /\ MayFault
          /\ hist' = [hist EXCEPT !.faults = @ + 1]
    /\ LET s2 == Retry(snd, "Timeout")
       IN snd' = s2
          /\ net' = CloseIfDone(s2, Consume(net, snd.conn, Len(net[snd.conn].r2s)))
    /\ UNCHANGED <<cfg, disc, host, backlog, srv, loops, acc, wr, fs>>

\* sender.rs 458-475: the final verdict
ReadFinal ==
    /\ snd.pc = "wait_final"
    /\ \/ /\ net[snd.conn].r2s # <<>>
          /\ snd' = Finished(snd, IF net[snd.conn].r2s[1] = 1 THEN "Success"
                                  ELSE "ChecksumMismatch")
          /\ net' = [Consume(net, snd.conn, 1) EXCEPT ![snd.conn].s_open = FALSE]
          /\ hist' = hist
       \/ /\ net[snd.conn].r2s = <<>>
          /\ \/ ~net[snd.conn].r_open /\ hist' = hist
             \/ /\ net[snd.conn].r_open
                /\ MayFault
                /\ hist' = [hist EXCEPT !.faults = @ + 1]
          /\ snd' = Finished(snd, "IoError")
          /\ net' = [net EXCEPT ![snd.conn].s_open = FALSE]
    /\ UNCHANGED <<cfg, disc, host, backlog, srv, loops, acc, wr, fs>>

\* TcpFileSender::cancel
Cancel ==
    /\ ~snd.cancelled
    /\ MayFault
    /\ snd' = [snd EXCEPT !.cancelled = TRUE]
    /\ hist' = [hist EXCEPT !.faults = @ + 1]
    /\ UNCHANGED <<cfg, disc, host, net, backlog, srv, loops, acc, wr, fs>>

\* --------------------------------------------------------- the wire
\* one byte of the first frame in flight is altered (its top bit flips)
Corrupt ==
    /\ snd.conn \in Conns
    /\ MayFault
    /\ net[snd.conn].s2r # <<>>
    /\ LET f == net[snd.conn].s2r[1]
       IN /\ f.kind = "frame"
          /\ f.checksum = HexToRaw(calculate_chunk_checksum(f.data))
          /\ net' = [net EXCEPT ![snd.conn].s2r[1].data[1] = (@ + 128) % 256]
    /\ hist' = [hist EXCEPT !.faults = @ + 1, !.corrupted = @ + 1]
    /\ UNCHANGED <<cfg, disc, host, snd, backlog, srv, loops, acc, wr, fs>>

\* the receiver's TcpStream of connection c is dropped
DropConn(nt, c) == [nt EXCEPT ![c].r_open = FALSE]

DropStream(nt, stream) == IF stream = <<>> THEN nt ELSE DropConn(nt, stream[1])

\* the receiver writes bytes to connection c
RWrite(nt, c, bytes) == [nt EXCEPT ![c].r2s = @ \o bytes, ![c].wpos = @ + Len(bytes)]

\* a write of the receiver can fail only once the sender has closed
WriteOutcomes(c) == IF net[c].s_open THEN {"ok"} ELSE {"ok", "fail"}

\* ------------------------------------------------- FileReceiverServer
HasFreeLoop(lp) == \E t \in LoopIds : lp[t].pc = "none"

\* thread::spawn of the accept loop
Spawn(lp) ==
    LET t == CHOOSE t \in LoopIds : lp[t].pc = "none" /\ \A u \in 1..(t - 1) : lp[u].pc # "none"
    IN [lp EXCEPT ![t].pc = "poll"]

EndLoop(lp, t) == [lp EXCEPT ![t] = [pc |-> "none", conn |-> 0, hs |-> <<>>]]

\* start() is called by the host, and by reject_transfer at its end
StartCallers == {"start", "reject"}

\* start(), receiver.rs 128-130: running.load(); the call returns at once,
\* having changed nothing, when the flag is set.  history: halted and
\* finished end with a call that goes on
Start ==
    /\ host.start = "idle"
    /\ IF srv.running
       THEN UNCHANGED <<host, hist>>
       ELSE /\ HasFreeLoop(loops)
            /\ host' = [host EXCEPT !.start = "store"]
            /\ hist' = [hist EXCEPT !.halted = FALSE, !.stopping = FALSE,
                                     !.finished = FALSE]
    /\ UNCHANGED <<cfg, disc, snd, net, backlog, srv, loops, acc, wr, fs>>

\* start(), receiver.rs 132: running.store(true)
StartStore(who) ==
    /\ host[who] = "store"
    /\ srv' = [srv EXCEPT !.running = TRUE]
    /\ host' = [host EXCEPT ![who] = "state"]
    /\ UNCHANGED <<cfg, disc, snd, net, backlog, loops, acc, wr, fs, hist>>

\* start(), receiver.rs 133-215: *state.lock() = Listening, thread::spawn;
\* the call returns, and reject_transfer after it
StartListening(who) ==
    /\ host[who] = "state"
    /\ HasFreeLoop(loops)
    /\ srv' = [srv EXCEPT !.state = "Listening"]
    /\ loops' = Spawn(loops)
    /\ host' = [host EXCEPT ![who] = "idle"]
    /\ UNCHANGED <<cfg, disc, snd, net, backlog, acc, wr, fs, hist>>

\* the receiver as stop() leaves it
Stopped(s) ==
    /\ ~s.running
    /\ s.state = "Idle"
    /\ s.pending_transfer = <<>>
    /\ s.pending_stream = <<>>

\* stop(), receiver.rs 220: running.store(false); history: restops counts
\* the calls that met a stopped receiver, stopping marks a stop() that no
\* start() or reject_transfer() call overlaps
Stop ==
    /\ MayHostCall
    /\ host.stop = "idle"
    /\ srv' = [srv EXCEPT !.running = FALSE]
    /\ host' = [host EXCEPT !.stop = "state"]
    /\ hist' = [hist EXCEPT !.stops = @ + 1,
                             !.restops = IF Stopped(srv) THEN @ + 1 ELSE @,
                             !.stopping = host.start = "idle" /\ host.reject = "idle"]
    /\ UNCHANGED <<cfg, disc, snd, net, backlog, loops, acc, wr, fs>>

\* stop(), receiver.rs 221: *state.lock() = Idle
StopState ==
    /\ host.stop = "state"
    /\ srv' = [srv EXCEPT !.state = "Idle"]
    /\ host' = [host EXCEPT !.stop = "transfer"]
    /\ UNCHANGED <<cfg, disc, snd, net, backlog, loops, acc, wr, fs, hist>>

\* stop(), receiver.rs 222: *pending_transfer.lock() = None
StopTransfer ==
    /\ host.stop = "transfer"
    /\ srv' = [srv EXCEPT !.pending_transfer = <<>>]
    /\ host' = [host EXCEPT !.stop = "stream"]
    /\ UNCHANGED <<cfg, disc, snd, net, backlog, loops, acc, wr, fs, hist>>

\* a stop() that leaves the pending stream where it is
StopStream_KeepsStream ==
    /\ host.stop = "stream"
    /\ host' = [host EXCEPT !.stop = "idle"]
    /\ hist' = [hist EXCEPT !.halted = hist.stopping, !.stopping = FALSE]
    /\ UNCHANGED <<cfg, disc, snd, net, backlog, srv, loops, acc, wr, fs>>

\* stop(), receiver.rs 223: *pending_stream.lock() = None, which drops the
\* stream; the call returns.  history: halted holds from the return of a
\* stop() that no start() or reject_transfer() call overlaps to the next
\* call of start() or reject_transfer()
StopStream ==
    /\ host.stop = "stream"
    /\ srv' = [srv EXCEPT !.pending_stream = <<>>]
    /\ net' = DropStream(net, srv.pending_stream)
    /\ host' = [host EXCEPT !.stop = "idle"]
    /\ hist' = [hist EXCEPT !.halted = hist.stopping, !.stopping = FALSE]
    /\ UNCHANGED <<cfg, disc, snd, backlog, loops, acc, wr, fs>>

\* accept loop: `while running.load()` is false
LoopExit(t) ==
    /\ loops[t].pc = "poll"
    /\ ~srv.running
    /\ loops' = EndLoop(loops, t)
    /\ UNCHANGED <<cfg, disc, host, snd, net, backlog, srv, acc, wr, fs, hist>>

\* accept loop: listener.accept() returns a connection, the handshake is read
LoopAccept(t) ==
    /\ loops[t].pc = "poll"
    /\ srv.running
    /\ backlog # <<>>
    /\ LET c == Head(backlog)
           handshake == read_handshake(net[c].s2r[1].bytes)
       IN /\ net[c].s2r # <<>>
          /\ net[c].s2r[1].kind = "hs"
          /\ IF handshake.ok
             THEN /\ loops' = [loops EXCEPT ![t] = [pc |-> "pub_transfer", conn |-> c,
                                                    hs |-> handshake.hs]]
                  /\ net' = [net EXCEPT ![c].s2r = Tail(@)]
             ELSE /\ loops' = loops
                  /\ net' = DropConn(RWrite([net EXCEPT ![c].s2r = Tail(@)], c, <<5>>), c)
    /\ backlog' = Tail(backlog)
    /\ UNCHANGED <<cfg, disc, host, snd, srv, acc, wr, fs, hist>>

\* IncomingTransfer built from the handshake
IncomingTransfer(hs, c) ==
    [sender_name |-> hs.sender_name, sender_addr |-> c, file_name |-> hs.file_name,
     file_size |-> hs.file_size, chunk_size |-> hs.chunk_size,
     file_checksum |-> hs.file_checksum, transfer_type |-> hs.transfer_type]

\* accept loop: *pending_transfer.lock() = Some(transfer)
LoopPubTransfer(t) ==
    /\ loops[t].pc = "pub_transfer"
    /\ srv' = [srv EXCEPT !.pending_transfer =
                   <<IncomingTransfer(loops[t].hs[1], loops[t].conn)>>]
    /\ loops' = [loops EXCEPT ![t].pc = "pub_stream"]
    /\ UNCHANGED <<cfg, disc, host, snd, net, backlog, acc, wr, fs, hist>>

\* accept loop: *pending_stream.lock() = Some(stream)
LoopPubStream(t) ==
    /\ loops[t].pc = "pub_stream"
    /\ srv' = [srv EXCEPT !.pending_stream = <<loops[t].conn>>]
    /\ net' = DropStream(net, srv.pending_stream)
    /\ loops' = [loops EXCEPT ![t].pc = "pub_state"]
    /\ UNCHANGED <<cfg, disc, host, snd, backlog, acc, wr, fs, hist>>

\* accept loop: *state.lock() = AwaitingAccept; break
LoopPubState(t) ==
    /\ loops[t].pc = "pub_state"
    /\ srv' = [srv EXCEPT !.state = "AwaitingAccept"]
    /\ loops' = EndLoop(loops, t)
    /\ UNCHANGED <<cfg, disc, host, snd, net, backlog, acc, wr, fs, hist>>

\* reject_transfer(), receiver.rs 421: pending_transfer.lock().take()
RejectTransfer ==
    /\ MayHostCall
    /\ host.reject = "idle"
    /\ HasFreeLoop(loops)
    /\ srv' = [srv EXCEPT !.pending_transfer = <<>>]
    /\ host' = [host EXCEPT !.reject = "take_stream",
                            !.found = IF srv.state = "AwaitingAccept"
                                         /\ srv.pending_transfer # <<>>
                                      THEN srv.pending_stream ELSE <<>>]
    /\ hist' = [hist EXCEPT !.rejects = @ + 1, !.halted = FALSE, !.stopping = FALSE,
                             !.finished = FALSE]
    /\ UNCHANGED <<cfg, disc, snd, net, backlog, loops, acc, wr, fs>>

\* reject_transfer(), receiver.rs 422: pending_stream.lock().take()
RejectTakeStream ==
    /\ host.reject = "take_stream"
    /\ srv' = [srv EXCEPT !.pending_stream = <<>>]
    /\ host' = [host EXCEPT !.reject = IF srv.pending_stream = <<>> THEN "set_state"
                                       ELSE "respond",
                            !.stream = srv.pending_stream]
    /\ UNCHANGED <<cfg, disc, snd, net, backlog, loops, acc, wr, fs, hist>>

\* reject_transfer(), receiver.rs 432-437: 0x00 to the stream it took (a
\* failed write is ignored); `if let Some(mut conn) = stream` moves the
\* stream into the block, whose end drops it
RejectRespond ==
    /\ host.reject = "respond"
    /\ net' = DropStream(RWrite(net, host.stream[1], <<0>>), host.stream)
    /\ host' = [host EXCEPT !.reject = "set_state", !.stream = <<>>]
    /\ hist' = [hist EXCEPT !.rejected = @ \cup {host.stream[1]}]
    /\ UNCHANGED <<cfg, disc, snd, backlog, srv, loops, acc, wr, fs>>

\* reject_transfer(), receiver.rs 439: *state.lock() = Listening
RejectState ==
    /\ host.reject = "set_state"
    /\ srv' = [srv EXCEPT !.state = "Listening"]
    /\ host' = [host EXCEPT !.reject = "clear_running"]
    /\ UNCHANGED <<cfg, disc, snd, net, backlog, loops, acc, wr, fs, hist>>

\* reject_transfer(), receiver.rs 442: running.store(false).  A loop thread
\* that polls while the flag is false leaves.
RejectRunning ==
    /\ host.reject = "clear_running"
    /\ srv' = [srv EXCEPT !.running = FALSE]
    /\ host' = [host EXCEPT !.reject = "load"]
    /\ UNCHANGED <<cfg, disc, snd, net, backlog, loops, acc, wr, fs, hist>>

\* reject_transfer(), receiver.rs 446: self.start(), which returns at once
\* when the flag has been set again meanwhile, and reject_transfer after it
RejectLoad ==
    /\ host.reject = "load"
    /\ host' = [host EXCEPT !.reject = IF srv.running THEN "idle" ELSE "store"]
    /\ UNCHANGED <<cfg, disc, snd, net, backlog, srv, loops, acc, wr, fs, hist>>

\* ------------------------------------------------------ accept_transfer
AccIdle(result) ==
    [pc |-> "idle", info |-> <<>>, conn |-> 0, received |-> 0,
     start_chunk_index |-> 0, result |-> result, at_state |-> acc.at_state,
     success |-> FALSE]

\* let transfer = self.pending_transfer.lock().unwrap().take()
\* an accept_transfer that announces Receiving before it looks at the slots
AcceptCall_SetsReceiving ==
    /\ acc.pc = "idle"
    /\ hist.accepts < cfg.budget.accepts
    /\ acc' = [acc EXCEPT !.pc = "take_stream", !.info = srv.pending_transfer,
                          !.result = None, !.at_state = srv.state]
    /\ srv' = [srv EXCEPT !.pending_transfer = <<>>, !.state = "Receiving"]
    /\ hist' = [hist EXCEPT !.accepts = @ + 1,
                             !.early = IF srv.state = "AwaitingAccept" THEN @ ELSE @ + 1]
    /\ UNCHANGED <<cfg, disc, host, snd, net, backlog, loops, wr, fs>>

AcceptCall ==
    /\ acc.pc = "idle"
    /\ hist.accepts < cfg.budget.accepts
    /\ acc' = [acc EXCEPT !.pc = "take_stream", !.info = srv.pending_transfer,
                          !.result = None, !.at_state = srv.state]
    /\ srv' = [srv EXCEPT !.pending_transfer = <<>>]
    /\ hist' = [hist EXCEPT !.accepts = @ + 1,
                             !.early = IF srv.state = "AwaitingAccept" THEN @ ELSE @ + 1]
    /\ UNCHANGED <<cfg, disc, host, snd, net, backlog, loops, wr, fs>>

\* a receiver that resumes without truncating the partial file
OpenWriter_NoTruncate(info, disk) ==
    IF info.transfer_type = "Folder"
    THEN [w |-> new_folder, fs |-> disk, start |-> 0, received |-> 0]
    ELSE IF "." \in DOMAIN disk.files
              /\ Len(disk.files["."]) > 0
              /\ Len(disk.files["."]) < info.file_size
              /\ info.chunk_size > 0
         THEN LET valid_chunks == Len(disk.files["."]) \div info.chunk_size
                  valid_len == valid_chunks * info.chunk_size
              IN [w |-> SingleWriter, fs |-> disk,
                  start |-> valid_chunks, received |-> valid_len]
         ELSE [w |-> SingleWriter, fs |-> FsCreate(disk, "."), start |-> 0, received |-> 0]

\* receiver.rs 262-294: the writer, the resume index and the bytes already held
OpenWriter(info, disk) ==
    IF info.transfer_type = "Folder"
    THEN [w |-> new_folder, fs |-> disk, start |-> 0, received |-> 0]
    ELSE IF "." \in DOMAIN disk.files
              /\ Len(disk.files["."]) > 0
              /\ Len(disk.files["."]) < info.file_size
              /\ info.chunk_size > 0
         THEN LET valid_chunks == Len(disk.files["."]) \div info.chunk_size
                  valid_len == valid_chunks * info.chunk_size
              IN [w |-> SingleWriter, fs |-> FsSetLen(disk, ".", valid_len),
                  start |-> valid_chunks, received |-> valid_len]
         ELSE [w |-> SingleWriter, fs |-> FsCreate(disk, "."), start |-> 0, received |-> 0]

\* receiver.rs 229: let stream = self.pending_stream.lock().unwrap().take();
\* unless both slots held a value the call returns NotFound and the stream
\* it took is dropped
AcceptTakeStream ==
    /\ acc.pc = "take_stream"
    /\ srv' = [srv EXCEPT !.pending_stream = <<>>]
    /\ IF acc.info # <<>> /\ srv.pending_stream # <<>>
       THEN /\ acc' = [acc EXCEPT !.pc = "set_state", !.conn = srv.pending_stream[1]]
            /\ net' = net
       ELSE /\ acc' = AccIdle("NotFound")
            /\ net' = DropStream(net, srv.pending_stream)
    /\ UNCHANGED <<cfg, disc, host, snd, backlog, loops, wr, fs, hist>>

\* receiver.rs 234: *self.state.lock().unwrap() = ReceiverState::Receiving
AcceptSetState ==
    /\ acc.pc = "set_state"
    /\ srv' = [srv EXCEPT !.state = "Receiving"]
    /\ acc' = [acc EXCEPT !.pc = "set_total"]
    /\ UNCHANGED <<cfg, disc, host, snd, net, backlog, loops, wr, fs, hist>>

\* receiver.rs 235: self.total_bytes.store(info.file_size)
AcceptSetTotal ==
    /\ acc.pc = "set_total"
    /\ srv' = [srv EXCEPT !.total_bytes = acc.info[1].file_size]
    /\ acc' = [acc EXCEPT !.pc = "set_bytes"]
    /\ UNCHANGED <<cfg, disc, host, snd, net, backlog, loops, wr, fs, hist>>

\* receiver.rs 236: self.bytes_received.store(0)
AcceptSetBytes ==
    /\ acc.pc = "set_bytes"
    /\ srv' = [srv EXCEPT !.bytes_received = 0]
    /\ acc' = [acc EXCEPT !.pc = "accept_byte"]
    /\ UNCHANGED <<cfg, disc, host, snd, net, backlog, loops, wr, fs, hist>>

\* receiver.rs 246-252: the accept byte 0x01; a failed write is returned
AcceptByte ==
    /\ acc.pc = "accept_byte"
    /\ \E out \in WriteOutcomes(acc.conn) :
         IF out = "ok"
         THEN /\ net' = RWrite(net, acc.conn, <<1>>)
              /\ acc' = [acc EXCEPT !.pc = "open_writer"]
         ELSE /\ net' = DropConn(net, acc.conn)
              /\ acc' = AccIdle("Err")
    /\ UNCHANGED <<cfg, disc, host, snd, backlog, srv, loops, wr, fs, hist>>

\* receiver.rs 258-294: the writer; metadata, new_single and resume_single
\* can fail, new_folder cannot
AcceptOpenWriter ==
    /\ acc.pc = "open_writer"
    /\ LET o == OpenWriter(acc.info[1], fs)
       IN \/ /\ wr' = o.w
             /\ fs' = o.fs
             /\ acc' = [acc EXCEPT !.pc = "resume_index", !.received = o.received,
                                   !.start_chunk_index = o.start]
             /\ UNCHANGED <<net, hist>>
          \/ /\ acc.info[1].transfer_type = "SingleFile"
             /\ MayFault
             /\ net' = DropConn(net, acc.conn)
             /\ acc' = AccIdle("Err")
             /\ hist' = [hist EXCEPT !.faults = @ + 1]
             /\ UNCHANGED <<wr, fs>>
    /\ UNCHANGED <<cfg, disc, host, snd, backlog, srv, loops>>

\* receiver.rs 296-306: the resume index; a failed write is returned
AcceptResumeIndex ==
    /\ acc.pc = "resume_index"
    /\ \E out \in WriteOutcomes(acc.conn) :
         IF out = "ok"
         THEN /\ net' = RWrite(net, acc.conn, U64BE(acc.start_chunk_index))
              /\ acc' = [acc EXCEPT !.pc = "chunk_loop"]
              /\ wr' = wr
              /\ hist' = [hist EXCEPT !.resume = <<[conn |-> acc.conn,
                                                    index |-> acc.start_chunk_index]>>,
                                      !.fed = <<>>]
         ELSE /\ net' = DropConn(net, acc.conn)
              /\ acc' = AccIdle("Err")
              /\ wr' = NoWriter
              /\ hist' = hist
    /\ UNCHANGED <<cfg, disc, host, snd, backlog, srv, loops, fs>>

\* a receiver that commits without comparing the checksum
ChunkVerified_Unchecked(f) == TRUE

\* receiver.rs 342-346: the MD5 computed over the data against the frame's
\* 16 checksum bytes
ChunkVerified(f) == HexToRaw(calculate_chunk_checksum(f.data)) = f.checksum

\* one iteration of the chunk loop: header, data, checksum, verify, write, ACK
RecvChunk ==
    /\ acc.pc = "chunk_loop"
    /\ acc.received < acc.info[1].file_size
    /\ net[acc.conn].s2r # <<>>
    /\ LET c == acc.conn
           f == net[c].s2r[1]
           nt == [net EXCEPT ![c].s2r = Tail(@)]
           res == writer_write_all(wr, fs, f.data)
       IN \E out \in WriteOutcomes(c) :
            IF ~ChunkVerified(f)
            THEN /\ IF out = "ok"
                    THEN /\ net' = RWrite(nt, c, U64BE(f.index) \o <<1>>)
                         /\ acc' = acc
                         /\ wr' = wr
                         /\ hist' = [hist EXCEPT !.acks = Append(@,
                                        [index |-> f.index, status |-> 1,
                                         endpos |-> net[c].wpos + 9])]
                    ELSE /\ net' = DropConn(nt, c)
                         /\ acc' = AccIdle("Err")
                         /\ wr' = NoWriter
                         /\ hist' = hist
                 /\ UNCHANGED <<fs, srv>>
            ELSE IF res.err
            THEN /\ out = "ok"
                 /\ net' = DropConn(nt, c)
                 /\ acc' = AccIdle("Err")
                 /\ wr' = NoWriter
                 /\ fs' = res.fs
                 /\ UNCHANGED <<srv, hist>>
            ELSE /\ fs' = res.fs
                 /\ srv' = [srv EXCEPT !.bytes_received = acc.received + Len(f.data)]
                 /\ IF out = "ok"
                    THEN /\ net' = RWrite(nt, c, U64BE(f.index) \o <<0>>)
                         /\ acc' = [acc EXCEPT !.received = @ + Len(f.data)]
                         /\ wr' = res.w
                         /\ hist' = [hist EXCEPT
                                !.acks = Append(@, [index |-> f.index, status |-> 0,
                                                    endpos |-> net[c].wpos + 9]),
                                !.written = Append(@, f.index),
                                !.fed = @ \o f.data]
                    ELSE /\ net' = DropConn(nt, c)
                         /\ acc' = AccIdle("Err")
                         /\ wr' = NoWriter
                         /\ hist' = [hist EXCEPT !.written = Append(@, f.index),
                                                  !.fed = @ \o f.data]
    /\ UNCHANGED <<cfg, disc, host, snd, backlog, loops>>

\* the read of a chunk header times out (30 s): accept_transfer returns the error
RecvTimeout ==
    /\ acc.pc = "chunk_loop"
    /\ acc.received < acc.info[1].file_size
    /\ net[acc.conn].s2r = <<>>
    /\ net[acc.conn].s_open
    /\ MayFault
    /\ net' = DropConn(net, acc.conn)
    /\ acc' = AccIdle("Err")
    /\ wr' = NoWriter
    /\ hist' = [hist EXCEPT !.faults = @ + 1]
    /\ UNCHANGED <<cfg, disc, host, snd, backlog, srv, loops, fs>>

\* an accept_transfer that ends without writing the state
FinalState_StaysReceiving(s, success) == s

\* receiver.rs 392 and 399: Completed or Error
FinalState(s, success) == [s EXCEPT !.state = IF success THEN "Completed" ELSE "Error"]

\* receiver.rs 404: running.store(false)
ClearRunning(s) == [s EXCEPT !.running = FALSE]

\* receiver.rs 390 and 397: the final verdict byte
Verdict(success) == IF success THEN <<1>> ELSE <<0>>

\* receiver.rs 373-398: leave the loop (all bytes received, or end of stream),
\* flush, final checksum, the verdict byte
RecvFinal ==
    /\ acc.pc = "chunk_loop"
    /\ \/ acc.received >= acc.info[1].file_size
       \/ net[acc.conn].s2r = <<>> /\ ~net[acc.conn].s_open
    /\ LET c == acc.conn
           info == acc.info[1]
       IN IF info.transfer_type = "Folder" /\ wr.manifest_hash = <<>>
          THEN /\ net' = DropConn(net, c)
               /\ acc' = AccIdle("Err")
               /\ hist' = hist
          ELSE LET final_checksum == IF info.transfer_type = "Folder"
                                     THEN wr.manifest_hash[1]
                                     ELSE calculate_file_checksum(fs.files["."])
                   success == final_checksum = info.file_checksum
               IN \E out \in WriteOutcomes(c) :
                    IF out = "ok"
                    THEN /\ net' = RWrite(net, c, Verdict(success))
                         /\ acc' = [acc EXCEPT !.pc = "final_state", !.success = success]
                         /\ hist' = [hist EXCEPT !.verdicts = @ \cup
                                         {[conn |-> c, pos |-> net[c].wpos + 1,
                                           byte |-> Verdict(success)[1]]}]
                    ELSE /\ net' = DropConn(net, c)
                         /\ acc' = AccIdle("Err")
                         /\ hist' = hist
    /\ wr' = NoWriter
    /\ UNCHANGED <<cfg, disc, host, snd, backlog, srv, loops, fs>>

\* receiver.rs 392 and 399: *self.state.lock().unwrap() = Completed or Error
AcceptFinalState ==
    /\ acc.pc = "final_state"
    /\ srv' = FinalState(srv, acc.success)
    /\ acc' = [acc EXCEPT !.pc = "clear_running"]
    /\ UNCHANGED <<cfg, disc, host, snd, net, backlog, loops, wr, fs, hist>>

\* receiver.rs 404-410: running.store(false); Ok(()) is returned and the
\* stream is dropped.  history: finished holds from the return of an
\* accept_transfer that ran to its verdict, with no start() or
\* reject_transfer() call under way, to the next call of either
AcceptClearRunning ==
    /\ acc.pc = "clear_running"
    /\ srv' = ClearRunning(srv)
    /\ net' = DropConn(net, acc.conn)
    /\ acc' = AccIdle("Ok")
    /\ hist' = [hist EXCEPT !.finished = host.start = "idle" /\ host.reject = "idle"]
    /\ UNCHANGED <<cfg, disc, host, snd, backlog, loops, wr, fs>>

\* ------------------------------------------------------------------ Next
Next ==
    \/ SendTo
    \/ ConnectFailed
    \/ HandshakeFailed
    \/ ReadDecision
    \/ DecisionError
    \/ ReadResume
    \/ LoopTop
    \/ SendChunk
    \/ SendChunkFail
    \/ WaitAck
    \/ AckError
    \/ ReadFinal
    \/ Cancel
    \/ Corrupt
    \/ TestConnection
    \/ Start
    \/ \E who \in StartCallers : StartStore(who)
    \/ \E who \in StartCallers : StartListening(who)
    \/ Stop
    \/ StopState
    \/ StopTransfer
    \/ StopStream
    \/ \E t \in LoopIds : LoopExit(t)
    \/ \E t \in LoopIds : LoopAccept(t)
    \/ \E t \in LoopIds : LoopPubTransfer(t)
    \/ \E t \in LoopIds : LoopPubStream(t)
    \/ \E t \in LoopIds : LoopPubState(t)
    \/ RejectTransfer
    \/ RejectTakeStream
    \/ RejectRespond
    \/ RejectState
    \/ RejectRunning
    \/ RejectLoad
    \/ AcceptCall
    \/ AcceptTakeStream
    \/ AcceptSetState
    \/ AcceptSetTotal
    \/ AcceptSetBytes
    \/ AcceptByte
    \/ AcceptOpenWriter
    \/ AcceptResumeIndex
    \/ RecvChunk
    \/ RecvTimeout
    \/ RecvFinal
    \/ AcceptFinalState
    \/ AcceptClearRunning

Spec == Init /\ [][Next]_vars

\* ============================================================== discovery
\* the transfer side, which discovery leaves alone
transfer_vars == <<cfg, snd, net, backlog, srv, loops, acc, wr, fs, hist, host>>

\* ServiceInfo of a ServiceResolved event: TXT properties id and name (the
\* name may be absent), the instance of the full name, addresses, port
ResolvedInfos ==
    [id : {Some(d) : d \in DeviceIds},
     name : {<<>>} \cup {Some(n) : n \in DeviceNames},
     instance : {<<98>>}, addresses : {<<1, 2>>}, port : Ports]

\* UDP datagrams: well-formed Hello packets from either address, and from
\* address 1 every proper prefix of one of them, the packet with a byte after
\* the name, with a header byte changed, and with a length byte announcing
\* more than the packet holds
HelloPackets ==
    {build_hello_packet(d, n, p) : d \in DeviceIds, n \in DeviceNames, p \in Ports}

MangledPacket == build_hello_packet(<<98>>, <<121, 122>>, 258)

Mangled(pkt) ==
    {SubSeq(pkt, 1, k) : k \in 0..(Len(pkt) - 1)}
    \cup {pkt \o <<0>>}
    \cup {[pkt EXCEPT ![1] = 0], [pkt EXCEPT ![2] = 0], [pkt EXCEPT ![3] = 4]}
    \cup {[pkt EXCEPT ![6] = Len(pkt)], [pkt EXCEPT ![7 + pkt[6]] = Len(pkt)]}

Datagrams ==
    [packet : HelloPackets, from : Addrs] \cup [packet : Mangled(MangledPacket), from : {1}]

\* BeaconListener::start: the socket binds, or the error is returned
BeaconListener_start(our_device_id, binds) ==
    IF binds THEN Some([our_device_id |-> our_device_id]) ELSE <<>>

\* the listener start_background_browsing(port) brings up: it is given the
\* own device id, so that a Hello whose id is our own is dropped
StartedListener(binds) == BeaconListener_start(Some(OwnDeviceId), binds)

\* the discovery side as the engine holds it: whether VoidWarpHandle.discovery
\* is Some, the manager's is_fallback() and get_peers(), and how many daemons
\* have the service registered (history)
ObservableState(d) ==
    [present |-> d.discovery # <<>>,
     fallback |-> d.discovery # <<>> /\ d.discovery[1].fallback_mode,
     peers |-> IF d.discovery = <<>> THEN {} ELSE get_peers(d.discovery[1]),
     registered |-> d.registered]

\* start_discovery_internal: DiscoveryManager::new, register_service and
\* start_background_browsing each succeed or fail; the new manager replaces
\* the old one, which is dropped (unregister, daemon.shutdown). History:
\* again, the call repeats the host's last call on the handle (a
\* start_discovery with the same port, in which the daemon and the
\* registration succeeded or failed as they do now; the browsing thread and
\* the beacon listener may have run in between), and before, what the host
\* could read when it made the call
StartDiscovery ==
    \E port \in Ports, created \in BOOLEAN, registers \in BOOLEAN,
       browses \in BOOLEAN, binds \in BOOLEAN :
        /\ ~created => ~registers /\ ~browses /\ ~binds
        /\ LET mgr == IF created
                      THEN register_service(NewManager, OwnDeviceId, registers)
                      ELSE new_fallback
               dropped == IF disc.discovery = <<>> THEN 0
                          ELSE Registrations(disc.discovery[1])
                                   - Registrations(unregister(disc.discovery[1]))
           IN disc' = [disc EXCEPT
                  !.discovery = Some(mgr),
                  !.browser = IF browses THEN Some([our_id |-> mgr.our_service]) ELSE <<>>,
                  !.listener = StartedListener(binds),
                  !.registered = @ - dropped + Registrations(mgr),
                  !.ret = 0,
                  !.prev_start = Some([port |-> port, created |-> created,
                                       registers |-> registers]),
                  !.last =
                      LET again == disc.prev_start =
                                       Some([port |-> port, created |-> created,
                                             registers |-> registers])
                      IN [op |-> "start_discovery", port |-> port,
                          outcome |-> <<created, registers, browses, binds>>,
                          again |-> again,
                          before |-> IF again THEN Some(ObservableState(disc)) ELSE <<>>]]
        /\ UNCHANGED transfer_vars

\* voidwarp_stop_discovery: handle.discovery = None drops the manager
StopDiscovery ==
    /\ disc.discovery # <<>>
    /\ disc' = [disc EXCEPT
           !.discovery = <<>>, !.browser = <<>>, !.listener = <<>>,
           !.registered = @ - (Registrations(disc.discovery[1])
                                  - Registrations(unregister(disc.discovery[1]))),
           !.last = [op |-> "stop_discovery"], !.prev_start = <<>>]
    /\ UNCHANGED transfer_vars

\* history: the observation meets an entry of its device_id under another name
Renames(peers, peer) ==
    peer.device_id \in DOMAIN peers
        /\ peers[peer.device_id].device_name # peer.device_name

\* voidwarp_add_manual_peer: -1 without a manager, else add_manual_peer
AddManualPeer ==
    \E d \in DeviceIds, n \in DeviceNames, ip \in Addrs, p \in Ports :
        /\ disc' = IF disc.discovery = <<>>
                   THEN [disc EXCEPT !.ret = -1, !.last = [op |-> "add_manual_peer_refused"],
                                     !.prev_start = <<>>]
                   ELSE [disc EXCEPT
                            !.discovery = Some(add_manual_peer(disc.discovery[1], d, n, ip, p)),
                            !.ret = 0,
                            !.prev_start = <<>>,
                            !.last = [op |-> "add_manual_peer",
                                      seen |-> DiscoveredPeer(d, n, <<ip>>, p),
                                      renamed |-> Renames(disc.discovery[1].peers,
                                                     DiscoveredPeer(d, n, <<ip>>, p))]]
        /\ UNCHANGED transfer_vars

\* browsing thread, ServiceEvent::ServiceResolved
ServiceResolved ==
    \E info \in ResolvedInfos :
        /\ disc.discovery # <<>> /\ disc.browser # <<>>
        /\ LET device_id == IF info.id = <<>> THEN <<>> ELSE info.id[1]
               device_name == IF info.name = <<>> THEN FullName(info.instance)
                              ELSE info.name[1]
               peer == DiscoveredPeer(device_id, device_name, info.addresses, info.port)
               mgr == disc.discovery[1]
               was == [op |-> "resolved", seen |-> peer,
                       renamed |-> Renames(mgr.peers, peer)]
           IN disc' = IF disc.browser[1].our_id = Some(device_id)
                      THEN [disc EXCEPT !.last = was]
                      ELSE [disc EXCEPT
                               !.discovery =
                                   Some([mgr EXCEPT !.peers = MapInsert(@, device_id, peer)]),
                               !.last = was]
        /\ UNCHANGED transfer_vars

\* browsing thread, ServiceEvent::ServiceRemoved
ServiceRemoved ==
    \E d \in DeviceIds :
        /\ disc.discovery # <<>> /\ disc.browser # <<>>
        /\ LET device_id == FirstLabel(FullName(d))
               mgr == disc.discovery[1]
           IN disc' = [disc EXCEPT
                  !.discovery = Some([mgr EXCEPT !.peers = MapRemove(@, device_id)]),
                  !.last = [op |-> "removed", id |-> d]]
        /\ UNCHANGED transfer_vars

\* beacon listener thread: one datagram from the socket
BeaconReceived ==
    \E datagram \in Datagrams :
        /\ disc.discovery # <<>> /\ disc.listener # <<>>
        /\ LET packet == datagram.packet
               from == datagram.from
               hello == parse_hello_packet(packet)
               mgr == disc.discovery[1]
               was == [op |-> "beacon", packet |-> packet, from |-> from,
                       renamed |-> hello # <<>> /\ Renames(mgr.peers, hello[1])]
           IN disc' =
                IF hello = <<>> \/ disc.listener[1].our_device_id = Some(hello[1].device_id)
                THEN [disc EXCEPT !.last = was]
                ELSE [disc EXCEPT
                         !.discovery = Some([mgr EXCEPT !.peers =
                             MapInsert(@, hello[1].device_id,
                                 DiscoveredPeer(hello[1].device_id, hello[1].device_name,
                                                <<from>>, hello[1].port))]),
                         !.last = was]
        /\ UNCHANGED transfer_vars

DiscInit ==
    /\ Init
    /\ cfg \in RaceConfigs
    /\ fs.files = [p \in {} |-> <<>>]

DiscNext ==
    \/ StartDiscovery
    \/ StopDiscovery
    \/ AddManualPeer
    \/ ServiceResolved
    \/ ServiceRemoved
    \/ BeaconReceived

DiscSpec == DiscInit /\ [][DiscNext]_vars

\* ============================================================ termination
\* Runs for send_to's termination: one send_to of a file of two chunks, and
\* one of a folder of one one-byte file with a chunk size that holds the
\* whole stream, with a budget of events that the run cannot use up, so that
\* a read of the sender that finds nothing can always end with its timeout
MaxTermEvents == 12

TermConfigs ==
    [src : {SingleSource(2)}, chunk_size : {1},
     resume_from_chunk : {0}, version : {PROTOCOL_VERSION},
     sender_name : {DefaultName}, budget : {Budget(MaxTermEvents, FALSE, 1, MaxAccepts)}]
    \cup [src : {OneFileFolder}, chunk_size : {WholeStreamChunkSize},
          resume_from_chunk : {0}, version : {PROTOCOL_VERSION},
          sender_name : {DefaultName},
          budget : {Budget(MaxTermEvents, FALSE, 1, MaxAccepts)}]

TermInit == InitOf(TermConfigs)

\* the steps of send_to once it has been called: each is one socket
\* operation, or the read of the source, that completes or fails
SenderStep ==
    \/ ReadDecision
    \/ DecisionError
    \/ ReadResume
    \/ LoopTop
    \/ SendChunk
    \/ SendChunkFail
    \/ WaitAck
    \/ AckError
    \/ ReadFinal

\* the host, which calls send_to, cancel, start and accept_transfer, the
\* receiver's threads, and the wire
OtherStep ==
    \/ SendTo
    \/ ConnectFailed
    \/ HandshakeFailed
    \/ Cancel
    \/ Corrupt
    \/ Start
    \/ StartStore("start")
    \/ StartListening("start")
    \/ \E t \in LoopIds : LoopAccept(t)
    \/ \E t \in LoopIds : LoopPubTransfer(t)
    \/ \E t \in LoopIds : LoopPubStream(t)
    \/ \E t \in LoopIds : LoopPubState(t)
    \/ AcceptCall
    \/ AcceptTakeStream
    \/ AcceptSetState
    \/ AcceptSetTotal
    \/ AcceptSetBytes
    \/ AcceptByte
    \/ AcceptOpenWriter
    \/ AcceptResumeIndex
    \/ RecvChunk
    \/ RecvTimeout
    \/ RecvFinal
    \/ AcceptFinalState
    \/ AcceptClearRunning

TermNext == SenderStep \/ OtherStep

\* the thread that runs send_to is scheduled; nothing is assumed of the
\* receiver, the host or the wire
TermSpec == TermInit /\ [][TermNext]_vars /\ WF_vars(SenderStep)

\* ================================================================== claims
\* ------------------------------------------------- vocabulary of the claims
SourceData == cfg.src.files[1].data

SourcePaths == {cfg.src.files[i].path : i \in DOMAIN cfg.src.files}

\* the source as a tree: each file with its bytes, and the directories
SourceFiles ==
    [p \in SourcePaths |->
        cfg.src.files[CHOOSE i \in DOMAIN cfg.src.files : cfg.src.files[i].path = p].data]

SourceDirs ==
    IF cfg.src.kind = "Folder"
    THEN ({PathParent(p) : p \in SourcePaths} \ {""}) \cup cfg.src.empty_dirs
    ELSE {}

\* what lay at save_path before the run is nothing, or a prefix of the source
\* file (the state an interrupted transfer of the same file leaves)
DestIsPrefix ==
    \A q \in DOMAIN hist.dest :
        /\ Len(hist.dest[q]) <= Len(SourceData)
        /\ hist.dest[q] = SubSeq(SourceData, 1, Len(hist.dest[q]))

DestIsFresh == hist.dest = EmptyFiles

\* a single-file run in which the host accepted while AwaitingAccept and
\* nothing went wrong: no fault, no cancel, no stop, no reject
CleanSingleRun ==
    /\ cfg.src.kind = "SingleFile"
    /\ cfg.version = PROTOCOL_VERSION
    /\ hist.faults = 0 /\ hist.stops = 0 /\ hist.rejects = 0
    /\ ~snd.cancelled
    /\ snd.sends = 1
    /\ hist.accepts >= 1 /\ acc.at_state = "AwaitingAccept"

\* the sender as new_single_file / new_folder construct it: set_resume_from
\* has not been called; and its read of the resume index has not timed out
SenderAsConstructed == cfg.resume_from_chunk = 0 /\ ~hist.late

\* accept_transfer returns in this step
AcceptReturns == acc.pc # "idle" /\ acc'.pc = "idle"

\* C1: whenever send_to has returned Success, the tree at save_path equals the
\* source: the same files with the same bytes, and the same directories.
C1_SuccessTreeIdentical ==
    snd.result = "Success" =>
        /\ fs.files = SourceFiles
        /\ fs.dirs \ {"."} = SourceDirs

\* C2: in a clean single-file run accepted while AwaitingAccept, the published
\* transfer carries the source's size, send_to returns Success and
\* accept_transfer returns Ok with the state Completed.
C2_Step ==
    /\ (cfg.src.kind = "SingleFile" /\ srv'.pending_transfer # <<>>) =>
           srv'.pending_transfer[1].file_size = Len(SourceData)
    /\ (CleanSingleRun' /\ DestIsPrefix /\ snd'.pc = "done") => snd'.result = "Success"
    /\ (CleanSingleRun' /\ DestIsPrefix /\ AcceptReturns) =>
           acc'.result = "Ok" /\ srv'.state = "Completed"

C2_CleanRunSucceeds == [][C2_Step]_vars

\* the same for a sender on which set_resume_from was not called
C2_AsConstructed == [][SenderAsConstructed => C2_Step]_vars

\* the receiver consumes the first frame in flight
RecvStep ==
    /\ acc.pc = "chunk_loop"
    /\ net[acc.conn].s2r # <<>>
    /\ net'[acc.conn].s2r = Tail(net[acc.conn].s2r)

HeadFrame == net[acc.conn].s2r[1]

HeadMismatch == HeadFrame.checksum # HexToRaw(calculate_chunk_checksum(HeadFrame.data))

\* C3: a payload reaches the writer only when the MD5 computed over the data
\* equals the frame's checksum bytes; on a mismatch the receiver replies
\* {index, 1} (or fails on that write), the disk and bytes_received stay as
\* they were.
C3_VerifyBeforeWrite ==
    [][RecvStep =>
         /\ HeadMismatch =>
               /\ fs' = fs
               /\ hist'.written = hist.written
               /\ srv'.bytes_received = srv.bytes_received
               /\ \/ net'[acc.conn].r2s = net[acc.conn].r2s \o U64BE(HeadFrame.index) \o <<1>>
                  \/ acc'.result = "Err" /\ ~net[acc.conn].s_open
         /\ (fs' # fs \/ hist'.written # hist.written \/ srv'.bytes_received # srv.bytes_received)
               => ~HeadMismatch]_vars

\* a corrupted frame was refused and nothing has been committed
C3_Witness ==
    /\ \E i \in DOMAIN hist.acks : hist.acks[i].status = 1
    /\ hist.written = <<>>
    /\ srv.state = "Receiving"
    /\ srv.bytes_received = 0

\* C4: a frame whose index differs from the frame before it carries the next
\* index, and by then the sender had read, to its last byte, an ACK of the
\* receiver for the previous index with status 0.
C4_SendThenAck ==
    \A j \in 2..Len(hist.sent) :
        LET f == hist.sent[j]
            g == hist.sent[j - 1]
        IN f.index # g.index =>
             /\ f.index = g.index + 1
             /\ \E a \in DOMAIN hist.acks :
                    /\ hist.acks[a].index = g.index
                    /\ hist.acks[a].status = 0
                    /\ hist.acks[a].endpos <= f.rpos

\* the same for a sender on which set_resume_from was not called
C4_AsConstructed == SenderAsConstructed => C4_SendThenAck

\* the number of frames sent with index k on the current connection
Attempts(k) == Cardinality({j \in DOMAIN hist.sent : hist.sent[j].index = k})

\* a run, accepted while AwaitingAccept, whose only fault is one corrupted frame
OneCorruptionRun ==
    /\ cfg.version = PROTOCOL_VERSION
    /\ hist.faults = 1 /\ hist.corrupted = 1
    /\ hist.stops = 0 /\ hist.rejects = 0
    /\ snd.sends = 1
    /\ hist.accepts >= 1 /\ acc.at_state = "AwaitingAccept"
    /\ DestIsPrefix

\* C5: at most MAX_RETRIES frames carry one index and they carry the same
\* data; after a failed attempt that is not the third the sender sends the
\* same index and data again; a run whose only fault is one corrupted frame
\* ends in Success.
C5_Step ==
    /\ \A j \in DOMAIN hist'.sent : Attempts(hist.sent[j].index)' <= MAX_RETRIES
    /\ \A j \in 2..Len(hist'.sent) :
           hist'.sent[j].index = hist'.sent[j - 1].index
               => hist'.sent[j].data = hist'.sent[j - 1].data
    /\ (snd'.pc = "send" /\ (snd.pc = "wait_ack"
                              \/ (snd.pc = "send" /\ snd'.retries # snd.retries))) =>
           /\ snd'.chunk_index = snd.chunk_index /\ snd'.data = snd.data
           /\ snd'.retries = snd.retries + 1 /\ snd'.retries < MAX_RETRIES
    /\ (OneCorruptionRun' /\ snd'.pc = "done") => snd'.result = "Success"

C5_RetryPolicy == [][C5_Step]_vars

\* the same for a sender on which set_resume_from was not called
C5_AsConstructed == [][SenderAsConstructed => C5_Step]_vars

\* reject_transfer returns from a call that was made while a transfer and
\* its stream were pending
RejectReturns == host.reject # "idle" /\ host'.reject = "idle"

RejectedPending == RejectReturns /\ host.found # <<>>

C6_Step ==
    /\ RejectedPending =>
           /\ host.found[1] \in hist'.rejected
           /\ ~net'[host.found[1]].r_open
           /\ srv'.pending_stream # host.found
           /\ srv'.pending_transfer # <<>> =>
                  srv'.pending_transfer[1].sender_addr # host.found[1]
           /\ srv'.running
           /\ \/ \E t \in LoopIds : loops'[t].pc # "none"
              \/ host'.start = "state"
              \/ srv'.pending_transfer # <<>> /\ srv'.pending_stream # <<>>
    /\ (host.reject = "take_stream" /\ host'.reject # host.reject /\ host.found # <<>>) =>
           host'.stream = host.found
    /\ (host.reject = "respond" /\ host'.reject # host.reject) =>
           /\ net'[host.stream[1]].r2s = net[host.stream[1]].r2s \o <<0>>
           /\ ~net'[host.stream[1]].r_open
    /\ (host.reject = "set_state" /\ host'.reject # host.reject) =>
           srv'.state = "Listening"
    /\ (snd.pc = "wait_decision" /\ snd.conn \in hist.rejected /\ snd'.pc # snd.pc) =>
           snd'.pc = "done" /\ snd'.result = "Rejected"

\* C6: a reject_transfer call made while a transfer is pending takes the
\* pending stream, writes 0x00 to it and closes it, leaves neither slot
\* holding that offer, stores Listening and returns with running set and an
\* accept loop thread alive (or about to be spawned by a start() call that
\* set the flag first, or gone because it has published the next offer);
\* the sender waiting on that connection returns Rejected.
C6_RejectPath == [][C6_Step]_vars

\* the same in runs in which the host calls neither accept_transfer nor stop
C6_WithoutOtherCalls == [][(hist'.accepts = 0 /\ hist'.stops = 0) => C6_Step]_vars

\* the first connection was rejected and the restarted loop has published
\* the sender's second connection
C6_Witness ==
    /\ hist.rejected = {1}
    /\ host.reject = "idle"
    /\ hist.accepts = 0 /\ hist.stops = 0
    /\ snd.conn = 2
    /\ srv.state = "AwaitingAccept"
    /\ srv.pending_stream = <<2>>
    /\ srv.pending_transfer # <<>>
    /\ srv.pending_transfer[1].sender_addr = 2

\* reject_transfer took the offer and accept_transfer its stream: the call
\* has returned, no decision byte was written and the sender read the end
\* of the stream
C6_Unanswered ==
    /\ host.reject = "idle" /\ host.found = <<1>>
    /\ hist.rejected = {}
    /\ acc.pc = "idle" /\ acc.result = "NotFound"
    /\ net[1].r2s = <<>> /\ ~net[1].r_open
    /\ snd.pc = "done" /\ snd.conn = 1 /\ snd.result # "Rejected"

\* accept_transfer has sent the accept byte and finds a partial file at
\* save_path
ResumeCase ==
    /\ acc.pc = "open_writer"
    /\ acc.info[1].transfer_type = "SingleFile"
    /\ "." \in DOMAIN fs.files
    /\ Len(fs.files["."]) > 0
    /\ Len(fs.files["."]) < acc.info[1].file_size
    /\ acc.info[1].chunk_size > 0

\* C7: with L bytes at save_path, 0 < L < file_size, and chunk size C > 0,
\* accept_transfer truncates the file to floor(L / C) * C bytes and then
\* sends resume index floor(L / C); every byte written afterwards goes to
\* the end of the file.
C7_ResumeInvariant ==
    [][/\ (ResumeCase /\ acc'.pc = "resume_index") =>
              LET L == Len(fs.files["."])
                  C == acc.info[1].chunk_size
                  resume_index == acc'.start_chunk_index
              IN /\ resume_index = L \div C
                 /\ resume_index * C <= L
                 /\ fs'.files["."] = SubSeq(fs.files["."], 1, resume_index * C)
                 /\ acc'.received = resume_index * C
                 /\ hist'.written = hist.written
       /\ (acc.pc = "resume_index" /\ acc'.pc = "chunk_loop") =>
              LET c == acc.conn
              IN /\ net'[c].r2s = net[c].r2s \o U64BE(acc.start_chunk_index)
                 /\ Len(net'[c].r2s) = Len(net[c].r2s) + 8
                 /\ acc.info[1].transfer_type = "SingleFile" =>
                        Len(fs.files["."]) = acc.start_chunk_index * acc.info[1].chunk_size
                 /\ hist'.written = hist.written
       /\ (acc.pc = "chunk_loop" /\ acc.info[1].transfer_type = "SingleFile"
               /\ hist'.written # hist.written) =>
              /\ Len(fs.files["."]) = acc.received
              /\ fs'.files["."] = fs.files["."] \o HeadFrame.data]_vars

\* a resumed transfer: save_path held one chunk and a part of the next, the
\* file was cut back to the chunk and the next chunk has been appended
C7_Witness ==
    /\ acc.pc = "chunk_loop"
    /\ "." \in DOMAIN hist.dest
    /\ Len(hist.dest["."]) % acc.info[1].chunk_size # 0
    /\ acc.start_chunk_index = 1
    /\ hist.written = <<1>>
    /\ Len(fs.files["."]) = 2 * acc.info[1].chunk_size
    /\ Len(fs.files["."]) > Len(hist.dest["."])

\* C8: when the first frame of a connection is sent the sender has read the
\* decision byte and the 8-byte resume index and nothing more, so that its
\* first ACK read starts directly after the resume index; the frame has the
\* index the receiver wrote and the source bytes at resume_index * chunk_size.
C8_SenderReadsResumeIndex ==
    (hist.sent # <<>> /\ hist.resume # <<>> /\ hist.resume[1].conn = snd.conn) =>
        /\ hist.sent[1].rpos = 9
        /\ hist.sent[1].index = hist.resume[1].index
        /\ hist.sent[1].data =
               reader_read(HeadData, Files, hist.resume[1].index * cfg.chunk_size,
                           cfg.chunk_size)

\* the same for a sender on which set_resume_from was not called
C8_AsConstructed == SenderAsConstructed => C8_SenderReadsResumeIndex

\* a clean run of a zero-byte single file
ZeroByteRun == CleanSingleRun /\ Len(SourceData) = 0

\* C9: in a clean run of a zero-byte file no frame is sent and none is
\* read, send_to returns Success, accept_transfer writes verdict 0x01 and
\* returns with the state Completed and an empty file at save_path.
C9_Step ==
    ZeroByteRun' =>
        /\ hist'.sent = <<>> /\ hist'.acks = <<>> /\ hist'.written = <<>>
        /\ snd'.pc = "done" => snd'.result = "Success"
        /\ AcceptReturns =>
              /\ acc'.result = "Ok"
              /\ \E v \in hist'.verdicts : v.conn = acc.conn /\ v.byte = 1
              /\ srv'.state = "Completed"
              /\ "." \in DOMAIN fs'.files
              /\ fs'.files["."] = <<>>

C9_ZeroByteFile == [][C9_Step]_vars

\* the same for a sender on which set_resume_from was not called
C9_AsConstructed == [][SenderAsConstructed => C9_Step]_vars

\* a clean run of a file of N * chunk_size bytes, N >= 1, to a fresh save_path
WholeChunksRun ==
    /\ CleanSingleRun
    /\ DestIsFresh
    /\ Len(SourceData) >= 1
    /\ Len(SourceData) % cfg.chunk_size = 0

\* C10: a file of N * chunk_size bytes is sent as N frames with indices
\* 0..N-1 of chunk_size bytes each, and send_to returns Success.
C10_WholeChunks ==
    (WholeChunksRun /\ snd.pc = "done") =>
        /\ snd.result = "Success"
        /\ Len(hist.sent) = Len(SourceData) \div cfg.chunk_size
        /\ \A j \in DOMAIN hist.sent :
               /\ hist.sent[j].index = j - 1
               /\ Len(hist.sent[j].data) = cfg.chunk_size

\* the same for a sender on which set_resume_from was not called
C10_AsConstructed == SenderAsConstructed => C10_WholeChunks

\* ------------------------------------------------------------------- C11
\* a run of any kind in which the host accepted while AwaitingAccept and
\* nothing went wrong: no fault, no cancel, no stop, no reject
CleanRun ==
    /\ cfg.version = PROTOCOL_VERSION
    /\ hist.faults = 0 /\ hist.stops = 0 /\ hist.rejects = 0
    /\ ~snd.cancelled
    /\ snd.sends = 1
    /\ hist.accepts >= 1 /\ acc.at_state = "AwaitingAccept"

EmptyFolderRun == CleanRun /\ cfg.src.kind = "Folder" /\ cfg.src.files = <<>>

\* the payload of the frames sent so far, in the order sent
RECURSIVE SentPayload(_)
SentPayload(sent) ==
    IF sent = <<>> THEN <<>> ELSE sent[1].data \o SentPayload(Tail(sent))

C11_Step ==
    /\ (EmptyFolderRun' /\ snd'.pc = "done") =>
           /\ snd'.result = "Success"
           /\ SentPayload(hist'.sent) = manifest_bytes(cfg.src)
    /\ (EmptyFolderRun' /\ acc.pc = "chunk_loop" /\ acc'.pc # "chunk_loop") =>
           /\ acc'.pc = "final_state"
           /\ wr.manifest_hash = <<calculate_chunk_checksum(manifest_json(cfg.src))>>
           /\ net'[acc.conn].wpos = net[acc.conn].wpos + 1
           /\ net'[acc.conn].r2s = net[acc.conn].r2s \o <<1>>
    /\ (EmptyFolderRun' /\ AcceptReturns) =>
           /\ acc'.result = "Ok" /\ srv'.state = "Completed"
           /\ fs'.dirs = {"."} /\ fs'.files = EmptyFiles

\* C11: a folder with no files, accepted and sent without a fault: the frames
\* carry the manifest prefix and the manifest and nothing else, the receiver
\* records the manifest's MD5, creates save_path with no entry in it, writes
\* verdict 1 and ends Completed, and send_to returns Success.
C11_EmptyFolder == [][C11_Step]_vars

\* the same for a sender on which set_resume_from was not called
C11_AsConstructed == [][SenderAsConstructed => C11_Step]_vars

\* ------------------------------------------------------------------- C12
\* the whole stream of the source: manifest prefix, manifest, file bytes
RECURSIVE ConcatFiles(_)
ConcatFiles(files) ==
    IF files = <<>> THEN <<>> ELSE files[1] \o ConcatFiles(Tail(files))

SourceStream == manifest_bytes(cfg.src) \o ConcatFiles(files_to_send(cfg.src))

\* the receiver's folder writer has been given exactly the source's stream
WholeStreamWritten == cfg.src.kind = "Folder" /\ hist.fed = SourceStream

\* C12: once the whole folder stream has been written to the folder writer,
\* every item of the manifest exists under save_path with exactly its bytes,
\* zero-size items included, wherever they stand in the manifest.
C12_FolderWriterComplete ==
    WholeStreamWritten =>
        \A i \in DOMAIN cfg.src.files :
            /\ cfg.src.files[i].path \in DOMAIN fs.files
            /\ fs.files[cfg.src.files[i].path] = cfg.src.files[i].data

\* the same for the items that are not zero-size items at the manifest's end
C12_UpToTrailingEmpty ==
    WholeStreamWritten =>
        \A i \in DOMAIN cfg.src.files :
            (\E j \in i..Len(cfg.src.files) : cfg.src.files[j].data # <<>>) =>
                /\ cfg.src.files[i].path \in DOMAIN fs.files
                /\ fs.files[cfg.src.files[i].path] = cfg.src.files[i].data

\* ------------------------------------------------------------------- C13
\* the bytes of the handshake at the head of the backlog
BacklogBytes == net[Head(backlog)].s2r[1].bytes

\* accept loop t takes the connection at the head of the backlog
AcceptStep(t) ==
    /\ loops[t].pc = "poll"
    /\ backlog # <<>>
    /\ backlog' = Tail(backlog)
    /\ loops'[t] # loops[t] \/ \A u \in LoopIds : loops'[u] = loops[u]

BadVersion(b) == b # <<>> /\ b[1] # PROTOCOL_VERSION

\* C13: a handshake whose version byte is not 1 makes read_from return
\* InvalidData with one byte read; the receiver publishes nothing, its state
\* stays Listening and the accept loop keeps polling.  Nothing is ever
\* published for such a peer.
C13_VersionRejected ==
    [][/\ \A t \in LoopIds :
             (AcceptStep(t) /\ BadVersion(BacklogBytes) /\ loops'[t] = loops[t]) =>
                 /\ read_from(BacklogBytes) = ReadError("InvalidData", 1)
                 /\ srv' = srv
                 /\ srv'.state = "Listening" /\ srv'.running
                 /\ srv'.pending_transfer = <<>> /\ srv'.pending_stream = <<>>
                 /\ loops'[t].pc = "poll"
       /\ \A t \in LoopIds :
             (AcceptStep(t) /\ BadVersion(BacklogBytes)) => loops'[t] = loops[t]
       /\ (cfg.version # PROTOCOL_VERSION) =>
             /\ srv'.pending_transfer = <<>>
             /\ srv'.state # "AwaitingAccept"]_vars

\* a version-2 handshake was refused: the error byte is on the stream, the
\* connection is dropped, the loop polls on in Listening
C13_Witness ==
    /\ cfg.version # PROTOCOL_VERSION
    /\ snd.conn = 1 /\ backlog = <<>>
    /\ net[1].wpos = 1 /\ ~net[1].r_open
    /\ srv.state = "Listening" /\ srv.running
    /\ \E t \in LoopIds : loops[t].pc = "poll"

\* ------------------------------------------------------------------- C14
\* the receiver's side: an accept loop that cannot decode the handshake
\* writes its one error byte and drops the connection
DecodeFailureReply ==
    \A t \in LoopIds :
        (AcceptStep(t) /\ ~read_handshake(BacklogBytes).ok) =>
            /\ net'[Head(backlog)].r2s = net[Head(backlog)].r2s \o <<5>>
            /\ ~net'[Head(backlog)].r_open
            /\ loops'[t] = loops[t]

\* send_to returns in this step
SendReturns == snd.pc # "done" /\ snd'.pc = "done"

\* the sender's side: send_to returns IoError when its handshake cannot be
\* decoded, be it cut short by a failed write or of another version, and
\* nothing else goes wrong
DecodeFailureResult ==
    /\ (SendReturns /\ snd'.conn # snd.conn /\ net'[snd'.conn].s2r # <<>>
          /\ ~read_handshake(net'[snd'.conn].s2r[1].bytes).ok) => snd'.result = "IoError"
    /\ (SendReturns /\ cfg.version # PROTOCOL_VERSION /\ hist'.faults = 0 /\ ~snd'.cancelled)
          => snd'.result = "IoError"

\* C14: when the receiver cannot decode the handshake (another version, or a
\* handshake cut short) it replies with its one error byte and drops the
\* connection, and send_to returns IoError.
C14_DecodeFailure == [][DecodeFailureReply /\ DecodeFailureResult]_vars

\* the receiver's side alone
C14_ReceiverSide == [][DecodeFailureReply]_vars

\* what the sender returns for a handshake of another version
C14_SenderResults ==
    [][(SendReturns /\ cfg.version # PROTOCOL_VERSION /\ hist'.faults = 0 /\ ~snd'.cancelled)
          => snd'.result \in {"IoError", "Timeout"}]_vars

\* ------------------------------------------------------------------- C15
\* the six fields write_to encodes
SixFields(h) ==
    [version |-> h.version, sender_name |-> h.sender_name, file_name |-> h.file_name,
     file_size |-> h.file_size, chunk_size |-> h.chunk_size,
     file_checksum |-> h.file_checksum]

WithinLimits(h) ==
    /\ Len(h.sender_name) <= 255
    /\ Len(h.file_name) <= 65535
    /\ Len(DigestBytes(h.file_checksum)) <= 255

\* read_from gives h back from the bytes of write_to and reads them all; so
\* does the decoding with the transfer_type byte
RoundTrip(h) ==
    /\ read_from(write_to(h)) =
           [ok |-> TRUE, err |-> None, consumed |-> Len(write_to(h)), hs |-> <<SixFields(h)>>]
    /\ read_handshake(handshake_bytes(h)) =
           [ok |-> TRUE, err |-> None, consumed |-> Len(handshake_bytes(h)), hs |-> <<h>>]

\* a whole handshake of this sender is on the stream of connection c
HandshakeInFlight(c) ==
    /\ net[c].s2r # <<>>
    /\ net[c].s2r[1].kind = "hs"
    /\ net[c].s2r[1].bytes = handshake_bytes(HandshakeRequest(cfg))

\* C15 as stated: every handshake within the length limits that write_to has
\* put on a stream is read back by read_from equal in every field, with
\* exactly the written bytes consumed.
C15_RoundTrip ==
    \A c \in Conns :
        (HandshakeInFlight(c) /\ WithinLimits(HandshakeRequest(cfg))) =>
            RoundTrip(HandshakeRequest(cfg))

\* C15 amended: the same for handshakes whose version is PROTOCOL_VERSION, as
\* HandshakeRequest::new builds them.
C15_RoundTripOfCurrentVersion ==
    \A c \in Conns :
        (HandshakeInFlight(c) /\ WithinLimits(HandshakeRequest(cfg))
           /\ HandshakeRequest(cfg).version = PROTOCOL_VERSION) =>
            RoundTrip(HandshakeRequest(cfg))

\* a version-1 handshake with a two-byte sender name and a checksum string
\* is on the stream
C15_Witness ==
    /\ HandshakeInFlight(1)
    /\ cfg.version = PROTOCOL_VERSION
    /\ Len(cfg.sender_name) = 2
    /\ Len(DigestBytes(HandshakeRequest(cfg).file_checksum)) > 0

\* ------------------------------------------------------------------- C16
\* a step of the host's stop() call, of its reject_transfer() call (the
\* start() at its end included), of its start() call
IsStop == host'.stop # host.stop

IsReject == host'.reject # host.reject

IsStart == host'.start # host.start

\* the edges of the receiver's state machine
StateEdge ==
    \/ IsStop /\ srv'.state = "Idle"
    \/ IsReject /\ srv.state = "AwaitingAccept" /\ srv'.state = "Listening"
    \/ IsStart /\ srv.state \in {"Idle", "Completed", "Error"} /\ srv'.state = "Listening"
    \/ /\ ~IsStop /\ ~IsReject /\ ~IsStart
       /\ <<srv.state, srv'.state>> \in
              {<<"Listening", "AwaitingAccept">>, <<"AwaitingAccept", "Receiving">>,
               <<"Receiving", "Completed">>, <<"Receiving", "Error">>}

\* C16: every change of the receiver's state is one of the edges
\* Idle -> Listening (start), Listening -> AwaitingAccept,
\* AwaitingAccept -> Receiving, Receiving -> Completed | Error,
\* AwaitingAccept -> Listening (reject_transfer),
\* Completed | Error -> Listening (start) and any -> Idle (stop).
C16_StateEdges == [][srv'.state # srv.state => StateEdge]_vars

\* the same in runs where the host never calls stop or reject_transfer and
\* calls accept_transfer only in AwaitingAccept
C16_WithoutHostRaces ==
    [][(/\ hist'.stops = 0 /\ hist'.rejects = 0
        /\ hist'.early = 0
        /\ srv'.state # srv.state) => StateEdge]_vars

\* ------------------------------------------------------------------- C17
\* accept_transfer returns from a call that found both pending slots filled,
\* in a run without stop and reject_transfer calls
AcceptedCallReturns ==
    /\ AcceptReturns
    /\ acc'.result # "NotFound"
    /\ hist'.stops = 0 /\ hist'.rejects = 0

\* C17: when an accept_transfer call that found a pending transfer returns,
\* with Ok or with an I/O error, the receiver's state is Completed or Error.
C17_AcceptEndsCompletedOrError ==
    [][AcceptedCallReturns => srv'.state \in {"Completed", "Error"}]_vars

\* the same for the calls that return Ok and were made when the state was
\* AwaitingAccept
C17_OkReturns ==
    [][(AcceptedCallReturns /\ acc'.result = "Ok" /\ hist'.early = 0) =>
           srv'.state \in {"Completed", "Error"}]_vars

\* ------------------------------------------------------------------- C18
\* the host calls start() and accept_transfer() only, and accept_transfer()
\* when it sees AwaitingAccept
HostStartsAndAccepts ==
    /\ hist.stops = 0 /\ hist.rejects = 0
    /\ hist.early = 0

\* accept_transfer has run to its final verdict and neither start() nor
\* reject_transfer() has been called since
TransferFinished == hist.finished

\* a loop thread at work: it holds a connection it has yet to publish
LoopAtWork(t) == loops[t].pc \in {"pub_transfer", "pub_stream", "pub_state"}

\* nothing is published in the step: no slot is filled and the state does
\* not become AwaitingAccept
NothingPublished ==
    /\ srv'.pending_transfer \in {<<>>, srv.pending_transfer}
    /\ srv'.pending_stream \in {<<>>, srv.pending_stream}
    /\ srv'.state = "AwaitingAccept" => srv.state = "AwaitingAccept"

C18_Step ==
    /\ (AcceptReturns /\ acc'.result = "Ok") =>
           /\ ~srv'.running
           /\ \A t \in LoopIds : loops'[t].pc = "none"
    /\ (TransferFinished /\ TransferFinished') =>
           /\ Len(backlog') >= Len(backlog)
           /\ NothingPublished
           /\ \A t \in LoopIds : loops'[t].pc \in {"none", loops[t].pc}
    /\ (acc.pc = "idle" /\ acc.result = "Ok"
           /\ host.start = "state" /\ host'.start = "idle") =>
           /\ srv'.state = "Listening"
           /\ \E t \in LoopIds : loops[t].pc = "none" /\ loops'[t].pc = "poll"

\* C18: once accept_transfer has finished a transfer the running flag is
\* false and no accept loop thread is left; no connection is accepted and
\* nothing is published until start() is called; that call stores Listening
\* and spawns an accept loop.
C18_NoAutoRestart == [][C18_Step]_vars

\* the same with a host that calls start() and accept_transfer() only, and
\* accept_transfer() when it sees AwaitingAccept; for that host nothing of
\* the receiver changes between the finished transfer and start(), and the
\* flag is set when start() returns
C18_WithQuietHost ==
    [][HostStartsAndAccepts' =>
           /\ C18_Step
           /\ (TransferFinished /\ TransferFinished') => srv' = srv
           /\ (acc.pc = "idle" /\ acc.result = "Ok"
                  /\ host.start = "state" /\ host'.start = "idle") => srv'.running]_vars

\* a second connection waits in the backlog of a receiver that has finished
\* a transfer and was not started again
C18_Witness ==
    /\ TransferFinished /\ HostStartsAndAccepts
    /\ srv.state = "Completed"
    /\ backlog = <<2>>
    /\ \A t \in LoopIds : loops[t].pc = "none"

\* the receiver was started again after a finished transfer
C18_WitnessRestart ==
    /\ HostStartsAndAccepts
    /\ acc.pc = "idle" /\ acc.result = "Ok"
    /\ srv.running /\ srv.state = "Listening"
    /\ \E t \in LoopIds : loops[t].pc = "poll"

\* reject_transfer had left two loop threads: one published the offer that
\* was accepted, the other is alive when accept_transfer returns Ok
C18_LoopLeft ==
    /\ TransferFinished
    /\ hist.stops = 0 /\ hist.rejects = 1 /\ hist.early = 0
    /\ \E t \in LoopIds : loops[t].pc # "none"

\* the host has called start() and accept_transfer() only; it accepted
\* between the loop's store of the stream and its store of AwaitingAccept,
\* and the loop thread has that store to do when the transfer is finished
C18_StateStoreLeft ==
    /\ TransferFinished
    /\ hist.stops = 0 /\ hist.rejects = 0 /\ hist.early = 1
    /\ srv.state = "Completed"
    /\ \E t \in LoopIds : loops[t].pc = "pub_state"

\* a loop thread has published the next offer on a receiver whose transfer
\* is finished, with no start() and no reject_transfer() since
C18_PublishedUnasked ==
    /\ TransferFinished
    /\ hist.stops = 0 /\ hist.rejects = 1 /\ hist.early = 0
    /\ srv.state = "AwaitingAccept"
    /\ srv.pending_transfer # <<>> /\ srv.pending_stream # <<>>

\* ------------------------------------------------------------------- C19
\* an IncomingTransfer is published and the host has yet to decide
OfferPending ==
    /\ srv.state = "AwaitingAccept"
    /\ srv.pending_transfer # <<>> /\ srv.pending_stream # <<>>

\* a step while no accept_transfer, reject_transfer or stop call is in
\* progress or begins
NoHostDecision ==
    /\ acc.pc = "idle" /\ acc'.pc = "idle"
    /\ host.reject = "idle" /\ host'.reject = "idle"
    /\ host.stop = "idle" /\ host'.stop = "idle"

C19_Step ==
    (OfferPending /\ NoHostDecision) =>
        /\ Len(backlog') >= Len(backlog)
        /\ srv'.pending_transfer = srv.pending_transfer
        /\ srv'.pending_stream = srv.pending_stream
        /\ \A t \in LoopIds : ~LoopAtWork(t)'

\* C19: while an IncomingTransfer is published and the host has not decided,
\* no accept loop takes a connection and the pending transfer and its stream
\* stay as they are.
C19_OfferNotReplaced == [][C19_Step]_vars

\* the same for a host that calls start() and accept_transfer() only, and
\* accept_transfer() when it sees AwaitingAccept: no second loop thread is
\* ever spawned beside one that is still running
C19_WithOneLoop ==
    [][(HostStartsAndAccepts /\ HostStartsAndAccepts') => C19_Step]_vars

\* a second sender's connection waits in the backlog while the first offer
\* is pending and no loop thread is left to accept it
C19_OfferHeld ==
    /\ HostStartsAndAccepts
    /\ OfferPending /\ acc.pc = "idle"
    /\ srv.pending_stream = <<1>> /\ backlog = <<2>>
    /\ \A t \in LoopIds : loops[t].pc = "none"

\* ------------------------------------------------------------------- C20
\* accept_transfer leaves its chunk loop for the final verification in this
\* step: every byte was received, or the stream has ended
FinalVerification ==
    /\ acc.pc = "chunk_loop" /\ acc'.pc # "chunk_loop"
    /\ \/ acc.received >= acc.info[1].file_size
       \/ net[acc.conn].s2r = <<>> /\ ~net[acc.conn].s_open

\* the manifest bytes among the bytes given to the folder writer
ReceivedManifest ==
    IF Len(hist.fed) < 4 THEN <<>>
    ELSE SubSeq(hist.fed, 5, 4 + U32FromBE(SubSeq(hist.fed, 1, 4)))

\* the receiver's final checksum: MD5 of the file on disk, or of the
\* received manifest bytes
FinalChecksum ==
    IF acc.info[1].transfer_type = "Folder"
    THEN calculate_chunk_checksum(ReceivedManifest)
    ELSE calculate_file_checksum(fs.files["."])

\* the receiver writes byte b as the last byte of connection c
WritesLast(c, b) ==
    /\ net'[c].wpos = net[c].wpos + 1
    /\ net'[c].r2s = net[c].r2s \o <<b>>

\* the byte the sender reads next is the receiver's final verdict b
ReadsVerdict(b) ==
    /\ snd.pc = "wait_final"
    /\ net[snd.conn].r2s # <<>> /\ net[snd.conn].r2s[1] = b
    /\ [conn |-> snd.conn, pos |-> net[snd.conn].rpos + 1, byte |-> b] \in hist.verdicts

C20_Step ==
    /\ FinalVerification =>
           /\ acc'.pc = "final_state"
           /\ IF FinalChecksum = acc.info[1].file_checksum
              THEN WritesLast(acc.conn, 1) /\ acc'.success
              ELSE WritesLast(acc.conn, 0) /\ ~acc'.success
    /\ (acc.pc = "final_state" /\ acc'.pc # "final_state") =>
           srv'.state = IF acc.success THEN "Completed" ELSE "Error"
    /\ (SendReturns /\ snd'.result = "Success") => ReadsVerdict(1)
    /\ (SendReturns /\ snd.pc = "wait_final" /\ net[snd.conn].r2s # <<>>
          /\ net[snd.conn].r2s[1] = 0) =>
           /\ snd'.result = "ChecksumMismatch"
           /\ ReadsVerdict(0)

\* C20: when accept_transfer reaches its final verification it writes
\* verdict 1 and then stores Completed exactly when its final checksum equals the
\* handshake checksum, and otherwise writes 0 and stores Error; send_to
\* returns Success only on reading the verdict 1, and the 0 it reads after
\* its last chunk is the verdict 0 and makes it return ChecksumMismatch.
C20_EndpointsAgree == [][C20_Step]_vars

\* the same for a sender on which set_resume_from was not called and an
\* accept_transfer that returns Ok
C20_AsConstructed ==
    [][(SenderAsConstructed /\ (FinalVerification => acc'.pc = "final_state")) => C20_Step]_vars

\* both ends report success: verdict 1 was written and read, the receiver
\* is Completed
C20_BothSucceed ==
    /\ SenderAsConstructed
    /\ snd.result = "Success" /\ acc.result = "Ok" /\ srv.state = "Completed"
    /\ [conn |-> snd.conn, pos |-> net[snd.conn].rpos, byte |-> 1] \in hist.verdicts

\* both ends report failure: verdict 0 was written and read, the receiver
\* is in Error
C20_BothFail ==
    /\ SenderAsConstructed
    /\ snd.result = "ChecksumMismatch" /\ acc.result = "Ok" /\ srv.state = "Error"
    /\ [conn |-> snd.conn, pos |-> net[snd.conn].rpos, byte |-> 0] \in hist.verdicts

\* ------------------------------------------------------------------- C21
\* send_to is in its chunk loop
InChunkLoop == snd.pc \in {"loop_top", "send", "wait_ack"}

\* a chunk iteration begins in this step with the flag set
IterationBeginsCancelled == snd.pc = "loop_top" /\ snd.cancelled /\ snd'.pc # snd.pc

C21_Step ==
    /\ IterationBeginsCancelled =>
           /\ snd'.pc = "done" /\ snd'.result = "Cancelled"
           /\ hist'.sent = hist.sent
           /\ net'[snd.conn].s2r = net[snd.conn].s2r
    /\ Len(hist'.sent) > Len(hist.sent) => snd.pc = "send"
    /\ (snd'.pc = "send" /\ snd.pc # "send") =>
           \/ snd.pc = "loop_top" /\ ~snd.cancelled
           \/ /\ snd.pc = "wait_ack"
              /\ snd'.chunk_index = snd.chunk_index /\ snd'.data = snd.data
    /\ (SendReturns /\ snd'.result = "Cancelled") => snd.pc = "loop_top" /\ snd.cancelled
    /\ (SendReturns /\ InChunkLoop /\ snd.cancelled /\ snd'.result # "Cancelled") =>
           /\ snd.pc \in {"send", "wait_ack"}
           /\ snd'.retries = MAX_RETRIES
           /\ snd'.result \in {"IoError", "ChecksumMismatch", "Timeout"}

\* C21: a chunk iteration that begins with the cancelled flag set sends no
\* frame and makes send_to return Cancelled; a frame is sent only in an
\* iteration that began with the flag unset, or as the retry of that
\* iteration's chunk; Cancelled is returned only from the top of an
\* iteration; and a send_to cancelled in its chunk loop returns anything
\* else only when the chunk in flight runs out of retries.
C21_CooperativeCancel == [][C21_Step]_vars

\* send_to was cancelled after its first frame and before its last chunk
C21_Witness ==
    /\ snd.pc = "done" /\ snd.result = "Cancelled"
    /\ hist.sent # <<>>
    /\ snd.offset < Len(SourceStream)

\* ------------------------------------------------------------------- C22
\* the peer map of the handle's manager (empty without one)
PeerMap == IF disc.discovery = <<>> THEN EmptyMap ELSE disc.discovery[1].peers

\* DiscoveryManager::get_peers of the handle's manager, before the FFI layer
\* filters and formats the addresses; nothing without a manager
PeersReturned == IF disc.discovery = <<>> THEN {} ELSE get_peers(disc.discovery[1])

\* C22: get_peers never returns a peer whose device_id is the engine's own.
C22_NoSelfPeer == \A p \in PeersReturned : p.device_id # OwnDeviceId

\* the step of a beacon listener, or of a browsing thread that was started
\* after the service had been registered, never enters the own id
C22_ThreadsSkipSelf ==
    [][(\/ disc'.last.op = "beacon"
        \/ disc'.last.op = "resolved" /\ disc.browser[1].our_id = Some(OwnDeviceId))
          => (OwnDeviceId \in DOMAIN PeerMap' => OwnDeviceId \in DOMAIN PeerMap)]_vars

\* the own Hello beacon and the own resolved service were skipped
C22_SelfSkipped ==
    /\ disc.last.op \in {"beacon", "resolved"}
    /\ \/ disc.last.op = "beacon" /\ disc.last.packet \in HelloPackets
             /\ parse_hello_packet(disc.last.packet)[1].device_id = OwnDeviceId
       \/ disc.last.op = "resolved" /\ disc.last.seen.device_id = OwnDeviceId
             /\ disc.browser[1].our_id = Some(OwnDeviceId)
    /\ OwnDeviceId \notin DOMAIN PeerMap

\* ------------------------------------------------------------------- C23
\* sequence p is a prefix of sequence s
IsPrefix(p, s) == Len(p) <= Len(s) /\ SubSeq(s, 1, Len(p)) = p

\* the observation made in this step: a manual addition, a resolved service,
\* or a datagram from some address that begins with a well-formed Hello
Observed(peer) ==
    \/ /\ disc'.last.op \in {"add_manual_peer", "resolved"}
       /\ disc'.last.seen = peer
    \/ /\ disc'.last.op = "beacon"
       /\ IsPrefix(build_hello_packet(peer.device_id, peer.device_name, peer.port),
                   disc'.last.packet)
       /\ peer.addresses = <<disc'.last.from>>

\* the peers the observation of this step can describe
Observable ==
    IF disc'.last.op \in {"add_manual_peer", "resolved"}
    THEN {disc'.last.seen}
    ELSE IF disc'.last.op = "beacon"
         THEN [device_id : DeviceIds, device_name : DeviceNames,
               addresses : {<<disc'.last.from>>}, port : Ports]
         ELSE {}

\* the peers get_peers returns under device_id d
PeersWithId(peers, d) == {p \in peers : p.device_id = d}

C23_Step ==
    /\ \A d \in DeviceIds : Cardinality(PeersWithId(PeersReturned', d)) <= 1
    /\ \A peer \in Observable :
           (Observed(peer) /\ peer.device_id # OwnDeviceId) =>
               PeersWithId(PeersReturned', peer.device_id) = {peer}
    /\ \A d \in DeviceIds :
           PeersWithId(PeersReturned', d) # PeersWithId(PeersReturned, d) =>
               \/ \E peer \in Observable : Observed(peer) /\ peer.device_id = d
               \/ disc'.last.op \in {"removed", "start_discovery", "stop_discovery"}

\* C23: get_peers returns at most one peer per device_id; directly after an
\* observation of another device it returns under that device_id exactly the
\* peer observed, with its name, addresses and port; and the peer returned
\* under a device_id changes only by an observation of that id, by a service
\* removal, or when start_discovery or stop_discovery replaces the manager.
C23_LatestObservation == [][C23_Step]_vars

\* an observation of device b has replaced an entry of b with another name
C23_Witness ==
    /\ disc.last.op \in {"add_manual_peer", "resolved", "beacon"}
    /\ disc.last.renamed
    /\ <<98>> \in DOMAIN PeerMap
    /\ \/ disc.last.op = "beacon"
          /\ disc.last.packet \in HelloPackets
          /\ PeerMap[<<98>>].device_name = parse_hello_packet(disc.last.packet)[1].device_name
       \/ disc.last.op # "beacon" /\ PeerMap[<<98>>] = disc.last.seen

\* ------------------------------------------------------------------- C24
\* shorter than its header, missing the name_len byte, or with id_len or
\* name_len announcing more bytes than the datagram holds
Truncated(buf) ==
    \/ Len(buf) < 6
    \/ Len(buf) < 6 + buf[6] + 1
    \/ Len(buf) < 6 + buf[6] + 1 + buf[6 + buf[6] + 1]

\* the magic or the type byte is not that of a Hello
WrongHeader(buf) ==
    \/ Len(buf) >= 1 /\ buf[1] # 86
    \/ Len(buf) >= 2 /\ buf[2] # 87
    \/ Len(buf) >= 3 /\ buf[3] # 3

C24_Step ==
    (disc'.last.op = "beacon"
        /\ (Truncated(disc'.last.packet) \/ WrongHeader(disc'.last.packet)))
    => /\ parse_hello_packet(disc'.last.packet) = <<>>
       /\ disc'.discovery = disc.discovery
       /\ disc'.browser = disc.browser /\ disc'.listener = disc.listener
       /\ disc'.registered = disc.registered

\* C24: for a datagram that is truncated or has a wrong magic or type,
\* parse_hello_packet returns None and the beacon listener's step leaves the
\* peer map, and the rest of the discovery state, as it was.
C24_DiscardsMalformed == [][C24_Step]_vars

\* the listener received a Hello cut inside its name while the map held a peer
C24_Witness ==
    /\ disc.last.op = "beacon"
    /\ Len(disc.last.packet) >= 6
    /\ Len(disc.last.packet) >= 6 + disc.last.packet[6] + 1
    /\ ~WrongHeader(disc.last.packet)
    /\ Truncated(disc.last.packet)
    /\ PeerMap # EmptyMap

\* the listener received a datagram with a wrong type byte
C24_WrongType ==
    /\ disc.last.op = "beacon"
    /\ Len(disc.last.packet) >= 6 /\ disc.last.packet[3] # 3
    /\ PeerMap # EmptyMap

\* ------------------------------------------------------------------- C25
\* the second of two start_discovery calls the host made in a row, with the
\* same port and the same outcome of DiscoveryManager::new and
\* register_service, has returned
SecondStartReturned == disc.last.op = "start_discovery" /\ disc.last.again

\* C25: start_discovery always returns 0 and leaves a manager on the
\* handle; and after the second of two calls the host made in a row with
\* the same port the host reads what it read before that call, that is,
\* what one call had left: a manager present, the same mode, the same peer
\* list, and the service registered once at most.
C25_StartIdempotent ==
    disc.last.op = "start_discovery" =>
        /\ disc.ret = 0
        /\ disc.discovery # <<>>
        /\ disc.last.again =>
               /\ Some(ObservableState(disc)) = disc.last.before
               /\ disc.registered = Registrations(disc.discovery[1])
               /\ disc.registered <= 1

\* the same, but for the peer list: the second call leaves the presence,
\* the mode and the registration as the first did, and an empty peer list
C25_ExceptPeers ==
    disc.last.op = "start_discovery" =>
        /\ disc.ret = 0
        /\ disc.discovery # <<>>
        /\ disc.last.again =>
               /\ Some(ObservableState(disc)) =
                      Some([disc.last.before[1] EXCEPT !.peers = {}])
               /\ disc.registered = Registrations(disc.discovery[1])
               /\ disc.registered <= 1

\* the second of two calls in a row has returned, the service is registered
C25_Witness ==
    /\ SecondStartReturned
    /\ disc.registered = 1
    /\ ~disc.discovery[1].fallback_mode

\* the second of two calls in a row has returned in fallback mode
C25_FallbackTwice ==
    /\ SecondStartReturned
    /\ disc.discovery[1].fallback_mode

\* a peer the listener or the browser found after the first call was listed
\* when the host made the second call, and is not listed after it
C25_PeersWiped ==
    /\ SecondStartReturned
    /\ disc.last.before[1].peers # {}
    /\ PeersReturned = {}

\* ------------------------------------------------------------------- C26
\* the step of a stop() call that is at position p
StopStepAt(p) == host.stop = p /\ host'.stop # p

C26_Step ==
    /\ StopStepAt("idle") => ~srv'.running
    /\ StopStepAt("state") => srv'.state = "Idle"
    /\ StopStepAt("transfer") => srv'.pending_transfer = <<>>
    /\ StopStepAt("stream") =>
           /\ srv'.pending_stream = <<>>
           /\ srv.pending_stream # <<>> => ~net'[srv.pending_stream[1]].r_open
    /\ (IsStop /\ Stopped(srv)) =>
           <<cfg, disc, snd, net, backlog, srv, loops, acc, wr, fs>>'
               = <<cfg, disc, snd, net, backlog, srv, loops, acc, wr, fs>>

\* C26: stop() stores false in running, Idle in the state and None in both
\* pending slots (which drops a pending stream); and a stop() called on a
\* receiver in that condition, as it is directly after a stop(), changes
\* nothing of the receiver, of the connections or of the files.
C26_StopIdempotent == [][C26_Step]_vars

\* stop() was called a second time on the receiver the first had stopped
\* while a transfer was pending, and has returned
C26_Witness ==
    /\ hist.stops = 2 /\ hist.restops = 1
    /\ host.stop = "idle"
    /\ Stopped(srv)
    /\ \E c \in Conns : net[c].s_open /\ ~net[c].r_open

\* ------------------------------------------------------------------- C27
TransferResults ==
    {"Success", "Rejected", "ChecksumMismatch", "ConnectionFailed", "Timeout",
     "Cancelled", "IoError"}

\* the chunks of the payload: its length over chunk_size, rounded up
PayloadChunks == (Len(SourceStream) + cfg.chunk_size - 1) \div cfg.chunk_size

\* the reads of the payload: the non-empty reads the sender's reader yields
\* from an offset to the end of the stream, each of which becomes one chunk
RECURSIVE ReadsFrom(_, _, _, _)
ReadsFrom(head, files, offset, buf_len) ==
    LET data == reader_read(head, files, offset, buf_len)
    IN IF data = <<>> THEN 0 ELSE 1 + ReadsFrom(head, files, offset + Len(data), buf_len)

PayloadReads == ReadsFrom(HeadData, Files, 0, cfg.chunk_size)

SendRunning == snd.pc \notin {"idle", "done"}

\* a send_to that has returned has one of the seven results, a send_to that
\* has not has none
ResultIsOne ==
    /\ snd.pc = "done" => snd.result \in TransferResults
    /\ snd.pc # "done" => snd.result = None

\* the same, and the chunk frames a send_to has transmitted are at most
\* MAX_RETRIES times the chunks of the payload
ResultAndFrames ==
    /\ ResultIsOne
    /\ Len(hist.sent) <= MAX_RETRIES * PayloadChunks

\* C27: when the thread that runs send_to is scheduled and each of its
\* socket operations completes or fails, a send_to that has been called
\* returns; it returns exactly one of Success, Rejected, ChecksumMismatch,
\* ConnectionFailed, Timeout, Cancelled, IoError; and it transmits at most
\* 3 chunk frames for every chunk of the payload.
C27_SendToTerminates ==
    /\ []ResultAndFrames
    /\ SendRunning ~> (snd.pc = "done")

\* the same with the frames counted against the reads of the payload: at
\* most 3 chunk frames for every read the sender's reader yields
C27_TerminatesFramesPerRead ==
    /\ [](ResultIsOne /\ Len(hist.sent) <= MAX_RETRIES * PayloadReads)
    /\ SendRunning ~> (snd.pc = "done")

\* the frame bound per read, as a property of every state
C27_FramesPerRead == Len(hist.sent) <= MAX_RETRIES * PayloadReads

\* in the runs of TermSpec the budget is not used up where send_to needs
\* it: a send_to that has been called and has not returned can take a step
TermBudgetHolds == SendRunning => ENABLED SenderStep

\* send_to has returned after it sent every chunk of a file three times
C27_Witness ==
    /\ snd.pc = "done"
    /\ PayloadChunks = 2
    /\ Len(hist.sent) = MAX_RETRIES * PayloadChunks

\* a folder whose stream is one chunk long was sent over a wire without
\* faults, in four frames: the manifest and each of the three files
C27_FourFramesNoFault ==
    /\ snd.pc = "done" /\ snd.result = "Success"
    /\ hist.faults = 0
    /\ PayloadChunks = 1
    /\ Len(hist.sent) = 4

\* ------------------------------------------------------------------- C28
\* the bytes the sender's reader yields from an offset on, read after read
\* with a buffer of chunk_size bytes, until a read returns nothing
RECURSIVE ReadFrom(_, _, _, _)
ReadFrom(head, files, offset, buf_len) ==
    LET data == reader_read(head, files, offset, buf_len)
    IN IF data = <<>> THEN <<>>
       ELSE data \o ReadFrom(head, files, offset + Len(data), buf_len)

StreamYielded == ReadFrom(HeadData, Files, 0, cfg.chunk_size)

RECURSIVE SumItemSizes(_)
SumItemSizes(files) ==
    IF files = <<>> THEN 0 ELSE Len(files[1].data) + SumItemSizes(Tail(files))

\* C28: the handshake file_size is the number of bytes the sender's stream
\* yields: the source file's size for SingleFile, 4 + the manifest JSON's
\* length + the sum of the item sizes for Folder.  The receiver reads that
\* value from the handshake, the sender's reader is at that offset when it
\* has read the stream to its end, and the receiver's loop condition
\* bytes_received < file_size turns false exactly when the bytes it holds and
\* has been delivered amount to the payload.
C28_FileSizeIsPayload ==
    LET file_size == HandshakeRequest(cfg).file_size
    IN /\ file_size = Len(StreamYielded)
       /\ cfg.src.kind = "SingleFile" => file_size = Len(SourceData)
       /\ cfg.src.kind = "Folder" =>
              file_size = 4 + Len(manifest_json(cfg.src)) + SumItemSizes(cfg.src.files)
       /\ srv.pending_transfer # <<>> => srv.pending_transfer[1].file_size = file_size
       /\ snd.pc = "wait_final" => snd.offset = file_size
       /\ acc.pc = "chunk_loop" =>
              /\ acc.info[1].file_size = file_size
              /\ acc.received =
                     acc.start_chunk_index * acc.info[1].chunk_size + Len(hist.fed)
              /\ acc.received < acc.info[1].file_size
                     <=> acc.start_chunk_index * acc.info[1].chunk_size + Len(hist.fed)
                             < Len(StreamYielded)

\* a folder of two files has been read to its end and delivered
C28_Witness ==
    /\ cfg.src.kind = "Folder" /\ Len(cfg.src.files) = 2
    /\ snd.pc = "wait_final"
    /\ acc.pc = "chunk_loop"
    /\ acc.received = acc.info[1].file_size
    /\ hist.fed = StreamYielded

\* a single file of three bytes has been read to its end in chunks of two
C28_SingleFile ==
    /\ cfg.src.kind = "SingleFile" /\ Len(SourceData) = 3 /\ cfg.chunk_size = 2
    /\ snd.pc = "wait_final"
    /\ snd.offset = 3

\* ------------------------------------------------------------------- C29
\* accept_transfer reports success: it writes the verdict 0x01 or enters
\* Completed
ReportsCompleted ==
    \/ \E v \in hist'.verdicts \ hist.verdicts : v.byte = 1
    \/ acc.pc = "final_state" /\ acc'.pc # "final_state" /\ srv'.state = "Completed"

C29_Step ==
    ReportsCompleted =>
        /\ acc.received = acc.info[1].file_size
        /\ srv.bytes_received = acc.info[1].file_size

\* C29: accept_transfer writes the verdict 0x01 and enters Completed only
\* when bytes_received equals the handshake's file_size; a connection that
\* ends before that, for a single file or a folder, is not reported
\* Completed.
C29_CompletedOnlyWhenWhole == [][C29_Step]_vars

\* the same for a single file
C29_SingleFile ==
    [][cfg.src.kind = "SingleFile" => C29_Step]_vars

\* a single file's connection ended early and the receiver reported Error
C29_SingleFileCutShort ==
    /\ cfg.src.kind = "SingleFile"
    /\ srv.state = "Error"
    /\ srv.bytes_received < srv.total_bytes
    /\ \E v \in hist.verdicts : v.byte = 0

\* a folder's connection ended before its files had come, and the receiver
\* reported Completed
C29_FolderCutShort ==
    /\ cfg.src.kind = "Folder"
    /\ srv.state = "Completed"
    /\ srv.bytes_received < srv.total_bytes
    /\ \E v \in hist.verdicts : v.byte = 1

\* ------------------------------------------------------------------- C30
\* the chunk indices accept_transfer has committed hold no index twice
CommittedOnce ==
    \A i, j \in 1..Len(hist.written) : hist.written[i] = hist.written[j] => i = j

\* the sender's stream from the receiver's resume offset on
StreamFromResume ==
    LET from == acc.start_chunk_index * acc.info[1].chunk_size
    IN SubSeq(SourceStream, from + 1, Len(SourceStream))

\* C30: the receiver commits each chunk index at most once; in the chunk
\* loop the bytes it has written are a prefix of the sender's stream from
\* the resume offset on; and bytes_received never exceeds file_size.
C30_CommittedOnce ==
    /\ CommittedOnce
    /\ acc.pc = "chunk_loop" => IsPrefix(hist.fed, StreamFromResume)
    /\ srv.bytes_received <= srv.total_bytes

\* the same for a sender as constructed over a wire whose only faults are
\* corrupted frames
C30_WithoutTimeouts ==
    (SenderAsConstructed /\ hist.faults = hist.corrupted) => C30_CommittedOnce

\* a sender as constructed: one chunk index was committed twice
C30_DuplicateCommit ==
    /\ SenderAsConstructed
    /\ ~CommittedOnce
    /\ srv.bytes_received > srv.total_bytes

\* a corrupted frame was refused, sent again and committed once
C30_RetransmitOnce ==
    /\ SenderAsConstructed
    /\ hist.corrupted = 1 /\ hist.faults = 1
    /\ CommittedOnce /\ hist.written # <<>>
    /\ acc.pc = "chunk_loop" /\ hist.fed = StreamFromResume

\* ------------------------------------------------------------------- C31
\* what the host reads or takes at this moment: the offer without its
\* stream, or AwaitingAccept with a slot empty
OfferWithoutStream == srv.pending_transfer # <<>> /\ srv.pending_stream = <<>>

AwaitingWithEmptySlot ==
    srv.state = "AwaitingAccept"
        /\ (srv.pending_transfer = <<>> \/ srv.pending_stream = <<>>)

\* accept_transfer has taken one slot full and finds the other empty
TookOneSlot ==
    acc.pc = "take_stream" /\ (acc.info = <<>>) # (srv.pending_stream = <<>>)

\* C31: at no moment can the host find a pending transfer without its
\* stream, take one of the two slots alone, or read AwaitingAccept while a
\* slot is empty.
C31_SlotsAtomic ==
    /\ ~OfferWithoutStream
    /\ ~TookOneSlot
    /\ ~AwaitingWithEmptySlot

\* a host that starts and calls accept_transfer once: it took the offer
\* between the loop's first and second store, the stream is published after
\* it and nobody is left to answer the sender
C31_OfferConsumedAlone ==
    /\ hist.stops = 0 /\ hist.rejects = 0 /\ hist.faults = 0
    /\ acc.pc = "idle" /\ acc.result = "NotFound"
    /\ srv.state = "AwaitingAccept"
    /\ srv.pending_transfer = <<>> /\ srv.pending_stream # <<>>

\* ------------------------------------------------------------------- C32
\* C32: from a stop() to the next start() the state is Idle and both
\* pending slots are empty, whatever the accept loop or a running
\* accept_transfer was doing when stop() was called; and the running flag
\* stays false, so that the loop leaves at its next poll.
C32_StopStopsWorker ==
    hist.halted =>
        /\ ~srv.running
        /\ srv.state = "Idle"
        /\ srv.pending_transfer = <<>>
        /\ srv.pending_stream = <<>>

\* the part that holds: the running flag stays false until the next start()
C32_RunningStaysFalse == hist.halted => ~srv.running

\* stop() was called while the loop held a handshake it had read: the offer
\* is published on the stopped receiver
C32_PublishedAfterStop ==
    /\ hist.halted /\ hist.accepts = 0
    /\ srv.state = "AwaitingAccept"
    /\ srv.pending_transfer # <<>> /\ srv.pending_stream # <<>>
    /\ \A u \in LoopIds : loops[u].pc = "none"

\* stop() was called while accept_transfer was receiving: the transfer goes
\* on and ends in Completed on the stopped receiver
C32_CompletedAfterStop ==
    /\ hist.halted
    /\ srv.state = "Completed"
    /\ acc.pc = "idle" /\ acc.result = "Ok"

\* ------------------------------------------------------------------- C33
\* the accept-loop threads that have been spawned and have not ended
LoopThreads == {t \in LoopIds : loops[t].pc # "none"}

\* C33: at any moment at most one accept-loop thread is running.
C33_OneLoopThread == Cardinality(LoopThreads) <= 1

\* the same for a host that never calls stop or reject_transfer and calls
\* accept_transfer only on AwaitingAccept
C33_WithQuietHost == HostStartsAndAccepts => C33_OneLoopThread

\* reject_transfer called while the state is Listening: the old thread has
\* not polled, the new one is started beside it
C33_TwoAfterReject ==
    /\ hist.rejects = 1 /\ hist.stops = 0 /\ hist.accepts = 0 /\ hist.faults = 0
    /\ Cardinality(LoopThreads) = 2
    /\ \A t \in LoopThreads : loops[t].pc = "poll"

\* stop directly followed by start: the old thread has not polled in between
C33_TwoAfterStopStart ==
    /\ hist.stops = 1 /\ hist.rejects = 0 /\ hist.accepts = 0 /\ hist.faults = 0
    /\ ~hist.halted
    /\ Cardinality(LoopThreads) = 2
    /\ \A t \in LoopThreads : loops[t].pc = "poll"

\* ------------------------------------------------------------------- C34
\* the stream bytes chunk index i covers: [i * chunk_size, (i + 1) * chunk_size)
ChunkOfStream(i) ==
    SubSeq(SourceStream, i * cfg.chunk_size + 1,
           Min((i + 1) * cfg.chunk_size, Len(SourceStream)))

\* frame f is full, or it carries the last bytes of the stream
FullOrLast(f) ==
    \/ Len(f.data) = cfg.chunk_size
    \/ f.index * cfg.chunk_size + Len(f.data) = Len(SourceStream)

\* C34: every chunk frame the sender has transmitted carries chunk_size data
\* bytes, except the one that ends the stream, and the frame with index i
\* carries the stream bytes from i * chunk_size on.
C34_ChunkSizeConstant ==
    \A k \in 1..Len(hist.sent) :
        /\ FullOrLast(hist.sent[k])
        /\ hist.sent[k].data = ChunkOfStream(hist.sent[k].index)

\* the same for a single file
C34_SingleFile == cfg.src.kind = "SingleFile" => C34_ChunkSizeConstant

\* a single file of three bytes was sent in chunks of two: a full chunk and
\* the last, shorter one
C34_SingleFileSent ==
    /\ cfg.src.kind = "SingleFile" /\ cfg.chunk_size = 2 /\ Len(SourceStream) = 3
    /\ snd.pc = "wait_final"
    /\ Len(hist.sent) = 2

\* a folder: a frame that is neither full nor the last was transmitted
C34_ShortChunkInside ==
    /\ cfg.src.kind = "Folder"
    /\ \E k \in 1..Len(hist.sent) : ~FullOrLast(hist.sent[k])

\* ------------------------------------------------------------------- C35
\* the sender of connection c has returned Cancelled from its send_to
SenderCancelled(c) == snd.conn = c /\ snd.pc = "done" /\ snd.result = "Cancelled"

\* accept_transfer is in its chunk loop, or past it, on a connection whose
\* sender cancelled
ReceivingCancelled ==
    /\ acc.pc \in {"chunk_loop", "final_state", "clear_running"}
    /\ SenderCancelled(acc.conn)

\* C35 as stated: once the sender has cancelled an accepted transfer, the
\* receiver's state is changed by nothing but a step of the host's stop().
C35_StaysReceiving ==
    [][(ReceivingCancelled /\ srv'.state # srv.state) => IsStop]_vars

C35_Step ==
    /\ (ReceivingCancelled /\ acc.pc = "final_state" /\ acc'.pc # "final_state") =>
           /\ srv'.state \in {"Completed", "Error"}
           /\ (srv'.state = "Completed" /\ cfg.src.kind = "SingleFile")
                  => acc.received = acc.info[1].file_size
    /\ (ReceivingCancelled /\ AcceptReturns) =>
           IF acc'.result = "Ok"
           THEN acc.pc = "clear_running"
           ELSE srv'.state = srv.state
    /\ (ReceivingCancelled /\ acc' # acc /\ acc.pc # "final_state") =>
           srv'.state = srv.state

\* C35 (amended): when the sender has cancelled an accepted transfer,
\* accept_transfer meets the end of the stream and ends with its final
\* verification: before it returns Ok it stores Error, or Completed (for a
\* single file only when every byte had been received before the cancel);
\* if it returns an error it leaves the state as it was, Receiving, until
\* the host changes it.  accept_transfer writes the state in no other step.
C35_AfterCancel == [][C35_Step]_vars

\* the sender cancelled a single file half-way, accept_transfer returned Ok
\* and the state is Error
C35_Witness ==
    /\ cfg.src.kind = "SingleFile"
    /\ snd.pc = "done" /\ snd.result = "Cancelled"
    /\ acc.pc = "idle" /\ acc.result = "Ok"
    /\ srv.state = "Error"
    /\ 0 < srv.bytes_received /\ srv.bytes_received < srv.total_bytes
    /\ hist.stops = 0 /\ hist.rejects = 0

\* the sender cancelled, accept_transfer returned an error and the state is
\* still Receiving
C35_StuckReceiving ==
    /\ snd.pc = "done" /\ snd.result = "Cancelled"
    /\ acc.pc = "idle" /\ acc.result = "Err"
    /\ srv.state = "Receiving"
    /\ hist.stops = 0 /\ hist.rejects = 0

\* ------------------------------------------------------------------- C36
\* MultiFileReader with its open-file state: global_offset, the index of the
\* file that is open (0 for None) and that file's own position
MaxBufLen == 3
MaxReadsBefore == 2

MultiFileReader_new ==
    [global_offset |-> 0, current_file_idx |-> 0, file_pos |-> 0]

\* MultiFileReader::read into a buffer of buf_len bytes
MultiFileReader_read(head, files, r, buf_len) ==
    IF r.global_offset < Len(head)
    THEN LET to_read == Min(buf_len, Len(head) - r.global_offset)
         IN [err |-> FALSE,
             data |-> SubSeq(head, r.global_offset + 1, r.global_offset + to_read),
             r |-> [r EXCEPT !.global_offset = @ + to_read]]
    ELSE LET loc == LocateFile(files, r.global_offset - Len(head), 1)
         IN IF loc.idx > Len(files) THEN [err |-> FALSE, data |-> <<>>, r |-> r]
            ELSE LET pos == IF r.current_file_idx # loc.idx THEN loc.rel
                            ELSE r.file_pos
                     left == Len(files[loc.idx]) - pos
                     n == IF left > 0 THEN Min(buf_len, left) ELSE 0
                     opened == [r EXCEPT !.current_file_idx = loc.idx,
                                         !.file_pos = pos]
                 IN IF n = 0 /\ loc.rel < Len(files[loc.idx])
                    THEN [err |-> TRUE, data |-> <<>>, r |-> opened]
                    ELSE [err |-> FALSE,
                          data |-> SubSeq(files[loc.idx], pos + 1, pos + n),
                          r |-> [opened EXCEPT !.global_offset = @ + n,
                                               !.file_pos = pos + n]]

\* a seek that moves the offset and keeps the open file
MultiFileReader_seek_KeepsFile(head, files, r, n) ==
    IF ~reader_seek_ok(head, files, n) THEN [ok |-> FALSE, r |-> r]
    ELSE [ok |-> TRUE, r |-> [r EXCEPT !.global_offset = n]]

\* MultiFileReader::seek(SeekFrom::Start(n))
MultiFileReader_seek(head, files, r, n) ==
    IF ~reader_seek_ok(head, files, n) THEN [ok |-> FALSE, r |-> r]
    ELSE [ok |-> TRUE,
          r |-> [global_offset |-> n, current_file_idx |-> 0, file_pos |-> 0]]

\* the buffer sizes of successive reads: a pattern of one or two sizes, repeated
BufferPatterns ==
    {<<a>> : a \in 1..MaxBufLen} \cup {<<a, b>> : a, b \in 1..MaxBufLen}

BufAt(sizes, i) == sizes[(i % Len(sizes)) + 1]

\* the reader after j reads made with the buffer sizes of the pattern
RECURSIVE AfterReads(_, _, _, _, _)
AfterReads(head, files, r, sizes, j) ==
    IF j = 0 THEN r
    ELSE MultiFileReader_read(head, files,
                              AfterReads(head, files, r, sizes, j - 1),
                              BufAt(sizes, j - 1)).r

\* what the reads from r on yield until one returns nothing; <<-1>> where a
\* read fails
RECURSIVE ReadToEnd(_, _, _, _, _)
ReadToEnd(head, files, r, sizes, i) ==
    LET res == MultiFileReader_read(head, files, r, BufAt(sizes, i))
    IN IF res.err THEN <<-1>>
       ELSE IF res.data = <<>> THEN <<>>
       ELSE res.data \o ReadToEnd(head, files, res.r, sizes, i + 1)

StreamFrom(k) == SubSeq(SourceStream, k + 1, Len(SourceStream))

\* the reader over the sender's head bytes and files, with every buffer
\* pattern, every number of reads before a seek and every seek target
ReaderIsConcatenation ==
    LET head == HeadData
        files == Files
        total == reader_total_size(head, files)
    IN /\ total = Len(SourceStream)
       /\ \A sizes \in BufferPatterns :
            /\ ReadToEnd(head, files, MultiFileReader_new, sizes, 0) = SourceStream
            /\ \A j \in 0..MaxReadsBefore :
                 LET r == AfterReads(head, files, MultiFileReader_new, sizes, j)
                 IN \A k \in 0..(total + 2) :
                      LET s == MultiFileReader_seek(head, files, r, k)
                      IN IF k <= total
                         THEN /\ s.ok
                              /\ s.r.global_offset = k
                              /\ ReadToEnd(head, files, s.r, sizes, 0) = StreamFrom(k)
                              /\ reader_read(head, files, k, sizes[1])
                                    = MultiFileReader_read(head, files, s.r, sizes[1]).data
                         ELSE /\ ~s.ok
                              /\ s.r = r
                              /\ ReadToEnd(head, files, s.r, sizes, j)
                                    = StreamFrom(r.global_offset)

\* send_over_stream has made its reader and sought, or failed to seek
ReaderMade ==
    /\ snd.pc \in {"wait_decision", "read_resume"}
    /\ snd'.pc \in {"loop_top", "done"}

\* C36: read from offset 0 with any buffer sizes, the reader yields head_bytes
\* followed by the files in order; after a seek(Start(k)) with k <=
\* total_size, made after any reads, the reads yield the suffix of that
\* sequence from k; a seek beyond total_size fails and leaves the reader as
\* it was, so that it goes on from its old position.  The read the sender
\* makes at an offset returns what the reader returns there, and the sender
\* starts at the offset its seek gave.  Stated for the reader of every
\* send_over_stream, where it is made.
C36_ReaderIsConcatenation ==
    [][ReaderMade =>
         /\ ReaderIsConcatenation
         /\ snd'.pc = "loop_top" =>
               snd'.offset = MultiFileReader_seek(HeadData, Files, MultiFileReader_new,
                                 snd'.chunk_index * cfg.chunk_size).r.global_offset]_vars

\* a folder with a file of no bytes, sent from a resume offset inside the
\* stream: the sender's reader has sought and what it read after the seek
\* was sent
C36_Witness ==
    /\ cfg.src.kind = "Folder"
    /\ \E i \in 1..Len(Files) : Files[i] = <<>>
    /\ \E i \in 1..Len(Files) : Files[i] # <<>>
    /\ cfg.resume_from_chunk > 0
    /\ Len(hist.sent) > 0
    /\ hist.sent[1].index = cfg.resume_from_chunk
    /\ hist.sent[1].data = ChunkOfStream(cfg.resume_from_chunk)

\* ------------------------------------------------------------------- C37
\* the stream written in successive write calls whose lengths follow the
\* pattern; calls counts the calls, errs those that returned an error
RECURSIVE WriteCuts(_, _, _, _, _)
WriteCuts(w, disk, stream, sizes, i) ==
    IF stream = <<>> THEN [w |-> w, fs |-> disk, errs |-> 0, calls |-> i]
    ELSE LET n == Min(BufAt(sizes, i), Len(stream))
             res == writer_write_all(w, disk, SubSeq(stream, 1, n))
             rest == WriteCuts(res.w, res.fs, SubSeq(stream, n + 1, Len(stream)),
                               sizes, i + 1)
         IN [rest EXCEPT !.errs = @ + (IF res.err THEN 1 ELSE 0)]

\* the i-th contiguous run of item.size bytes of the stream after the
\* length and the manifest
ItemRun(stream, items, i) ==
    LET before == 4 + U32FromBE(SubSeq(stream, 1, 4))
                    + SumSizes(SubSeq(items, 1, i - 1))
    IN SubSeq(stream, before + 1, before + items[i].size)

\* what lies at a path of the disk (nothing where there is no file)
Held(disk, p) == IF p \in DOMAIN disk.files THEN disk.files[p] ELSE <<>>

TrailingBytes == {<<>>, <<7>>, <<7, 7>>}

\* the sender's folder stream, followed by any trailing bytes, written to a
\* new folder writer over the disk in every pattern of cuts
FolderWriterResplits(disk) ==
    LET items == TransferManifest(cfg.src.files).items
    IN \A sizes \in BufferPatterns : \A extra \in TrailingBytes :
         LET res == WriteCuts(new_folder, disk, SourceStream \o extra, sizes, 0)
         IN /\ res.errs = 0
            /\ \A i \in 1..Len(items) :
                  Held(res.fs, items[i].path) = ItemRun(SourceStream, items, i)
            /\ \A p \in DOMAIN res.fs.files :
                  \/ \E i \in 1..Len(items) : items[i].path = p
                  \/ p \in DOMAIN disk.files /\ res.fs.files[p] = disk.files[p]

\* accept_transfer makes the writer of a folder transfer
FolderWriterMade == acc.pc = "open_writer" /\ wr'.kind = "Folder"

\* C37: for every way of cutting the folder stream into successive write
\* calls, every manifest item holds exactly its run of item.size bytes of the
\* stream, in items order (an item of no bytes holds none), every write
\* call returns the full length of its buffer, and bytes after the last item
\* are consumed and written to no file.  Stated for the stream of the
\* folder being sent, where accept_transfer makes its writer.
C37_WriterResplits == [][FolderWriterMade => FolderWriterResplits(fs')]_vars

\* a folder whose file of two bytes arrived in chunks of one byte: the
\* length, the manifest and the file were each cut, and the file is whole
C37_Witness ==
    /\ cfg.src.kind = "Folder"
    /\ cfg.chunk_size = 1
    /\ wr.kind = "Folder" /\ wr.st = "WritingFiles"
    /\ Len(wr.items) = 1 /\ wr.items[1].size = 2
    /\ wr.current_file_idx = 1
    /\ Held(fs, wr.items[1].path) = cfg.src.files[1].data
    /\ Len(hist.fed) > Len(manifest_bytes(cfg.src)) + 1

\* ------------------------------------------------------------------- C38
\* the attempt that fails now is the third failed one for the chunk
ThirdFailure == snd.retries = MAX_RETRIES - 1 /\ snd'.retries = MAX_RETRIES

\* the nine bytes wait_for_ack read carry another index or a status other
\* than 0
BadAck ==
    /\ Len(net[snd.conn].r2s) >= 9
    /\ \/ U64FromBE(SubSeq(net[snd.conn].r2s, 1, 8)) # snd.chunk_index
       \/ net[snd.conn].r2s[9] # 0

\* send_to has given up after MAX_RETRIES failed attempts
GaveUp == snd.pc = "done" /\ snd.retries = MAX_RETRIES

C38_Step ==
    /\ ThirdFailure =>
          /\ snd'.pc = "done"
          /\ snd'.result =
                IF snd.pc = "send" THEN "IoError"
                ELSE IF Len(net[snd.conn].r2s) < 9 THEN "Timeout"
                ELSE "ChecksumMismatch"
          /\ snd.pc \in {"send", "wait_ack"}
          /\ snd'.result = "ChecksumMismatch" => BadAck
          /\ hist'.sent = hist.sent
    /\ (GaveUp /\ snd'.sends = snd.sends) =>
          /\ hist'.sent = hist.sent
          /\ snd'.result = snd.result
          /\ Len(net'[snd.conn].s2r) <= Len(net[snd.conn].s2r)

\* C38: when the third attempt for a chunk fails, send_to returns IoError
\* if writing the frame failed, Timeout if reading the ACK failed and
\* ChecksumMismatch if the ACK carried another index or a status other than
\* 0; after that the sender transmits no further frame.
C38_ResultByCause == [][C38_Step]_vars

\* the receiver refused the chunk twice and the third ACK never came: the
\* result is Timeout, the cause of the third failure
C38_Witness ==
    /\ GaveUp
    /\ snd.result = "Timeout"
    /\ hist.corrupted >= 2
    /\ Len(hist.sent) = MAX_RETRIES

\* three refused attempts; and a frame that could not be written at the
\* third attempt
C38_Mismatch == GaveUp /\ snd.result = "ChecksumMismatch" /\ Len(hist.sent) = MAX_RETRIES
C38_IoError == GaveUp /\ snd.result = "IoError" /\ Len(hist.sent) < MAX_RETRIES

\* ------------------------------------------------------------------- C39
\* accept_transfer has chosen a resume index above 0 and is in its chunk loop
ResumedTransfer ==
    /\ acc.pc = "chunk_loop"
    /\ acc.info[1].transfer_type = "SingleFile"
    /\ acc.start_chunk_index > 0

TruncatedLength == acc.start_chunk_index * acc.info[1].chunk_size

\* C39: on a resumed single-file transfer, from the moment the resume index
\* r > 0 is chosen, bytes_received() is at least r * chunk_size, and it
\* never decreases during the transfer.
C39_CounterFromResume ==
    [][/\ ResumedTransfer' => srv'.bytes_received >= TruncatedLength'
       /\ (ResumedTransfer /\ ResumedTransfer') =>
              srv'.bytes_received >= srv.bytes_received]_vars

\* during a resumed transfer the counter never decreases
C39_NeverDecreases ==
    [][(ResumedTransfer /\ ResumedTransfer') =>
          srv'.bytes_received >= srv.bytes_received]_vars

\* once a chunk has been committed the counter is the local count, which
\* started at the truncated length
C39_AfterFirstCommit ==
    (ResumedTransfer /\ hist.fed # <<>>) =>
        /\ srv.bytes_received = acc.received
        /\ acc.received = TruncatedLength + Len(hist.fed)

\* the resume index is chosen, the file was truncated to a whole chunk, and
\* the counter the host reads is 0
C39_ZeroAfterResume ==
    /\ ResumedTransfer
    /\ acc.received = TruncatedLength
    /\ Len(fs.files["."]) = TruncatedLength
    /\ srv.bytes_received = 0

\* the resumed transfer has committed a chunk and the counter is past the
\* truncated length
C39_CountedAfterCommit ==
    /\ ResumedTransfer
    /\ hist.fed # <<>>
    /\ srv.bytes_received > TruncatedLength

\* ------------------------------------------------------------------- C40
\* what a refused accept_transfer leaves alone: the receiver's state,
\* running flag, counters and slots, every socket and the disk
ReceiverLeftAlone ==
    /\ srv' = srv
    /\ net' = net /\ backlog' = backlog
    /\ fs' = fs /\ wr' = wr

\* the first take of accept_transfer finds no offer
TakesNoOffer == acc.pc = "idle" /\ acc'.pc = "take_stream" /\ srv.pending_transfer = <<>>

\* the second take finds no stream either
TakesNoStream ==
    /\ acc.pc = "take_stream" /\ acc'.pc = "idle"
    /\ acc.info = <<>> /\ srv.pending_stream = <<>>

\* C40: accept_transfer called when both pending slots are empty returns
\* NotFound and changes nothing: state, running, bytes_received and
\* total_bytes keep their values and nothing is written to a socket or file.
C40_NothingPending ==
    [][/\ TakesNoOffer => ReceiverLeftAlone
       /\ TakesNoStream => (acc'.result = "NotFound" /\ ReceiverLeftAlone)]_vars

\* accept_transfer was called on a listening receiver no sender had
\* connected to, and returned NotFound; the receiver still listens
C40_Witness ==
    /\ acc.pc = "idle" /\ acc.result = "NotFound"
    /\ hist.accepts = 1 /\ hist.early = 1
    /\ snd.sends = 0
    /\ srv.running /\ srv.state = "Listening"
    /\ srv.bytes_received = 0 /\ srv.total_bytes = 0
====
